---- MODULE Spec2Model ----
(***************************************************************************)
(* The component handler (upgrade registry) of the sample                  *)
(* "sunset clause collective agreement 30766.js", lines 88-418: the        *)
(* registry of component configurations, the list of created components,   *)
(* and the 'data-upgraded' attribute of the elements of a small document.  *)
(*                                                                         *)
(* JavaScript strings are sequences of one-character strings, so that      *)
(* split(',') and join(',') are computed and not assumed to be inverse.    *)
(* Every handler is one action: it runs to completion (or to the throw     *)
(* that ends it) over a machine record that is threaded through its        *)
(* statements.  Code the handler calls but the registry does not own       *)
(* (event listeners, component constructors, upgrade callbacks) is an      *)
(* input of the action: which targets' 'mdl-componentupgrading' event is   *)
(* cancelled, and which call of a constructor or callback throws.          *)
(***************************************************************************)
EXTENDS Integers, Sequences, FiniteSets, TLC

\* ------------------------------------------------------------------ bounds
\* calls of the public interface in a behaviour
MaxCalls == 4

\* ------------------------------------------------------ values and strings
\* the JavaScript values undefined and null; no string equals either one
\* (a string is a sequence of ONE-character strings)
Undefined == <<"undefined">>
Null == <<"null">>

Widget == <<"W", "i", "d", "g", "e", "t">>
Tabs == <<"T", "a", "b", "s">>
\* class names the components register under (classAsString)
TypeNames == {Widget, Tabs}

\* marker classes (cssClass)
CssClasses == {"w-js", "t-js"}
\* an omitted CSS class argument, and what '.' + optCssClass makes of it
UndefinedCss == "<undefined>"
CssToString(c) == IF c = UndefinedCss THEN "undefined" ELSE c

\* constructors: what a configuration's  constructor  can be; the prototype
\* of CtorReserved has its own property mdlComponentConfigInternal_
Constructors == {"CtorA", "CtorB", "CtorReserved"}
HasReservedProperty(ctor) == ctor = "CtorReserved"

\* functions a page subscribes with registerUpgradedCallback
Callbacks == {"cb1", "cb2"}

\* the document: e1 is the parent of e2
Elements == {"e1", "e2"}
\* a value that is no Element (upgradeElement, downgradeElements arguments)
NotANode == "notANode"
\* the classes of the elements of the page most claims are checked on
PlainDocument ==
    [e \in Elements |-> IF e = "e1" THEN {"w-js"} ELSE {"w-js", "t-js"}]
ChildrenOf(e) == IF e = "e1" THEN <<"e2">> ELSE <<>>
\* document order of the elements
DocumentOrder == <<"e1", "e2">>

\* JavaScript truthiness of the values the registry tests
Falsy(v) == v = Undefined \/ v = Null \/ v = <<>>

\* String.prototype.split(','): the fields between the commas, at least one
RECURSIVE SplitFrom(_, _, _)
SplitFrom(s, i, field) ==
    IF i > Len(s) THEN <<field>>
    ELSE IF s[i] = "," THEN <<field>> \o SplitFrom(s, i + 1, <<>>)
    ELSE SplitFrom(s, i + 1, Append(field, s[i]))
Split(s) == SplitFrom(s, 1, <<>>)

\* Array.prototype.join(','): undefined and null elements join as ''
ItemToString(x) == IF x = Undefined \/ x = Null THEN <<>> ELSE x
RECURSIVE JoinFrom(_, _)
JoinFrom(list, i) ==
    IF i > Len(list) THEN <<>>
    ELSE IF i = Len(list) THEN ItemToString(list[i])
    ELSE ItemToString(list[i]) \o <<",">> \o JoinFrom(list, i + 1)
Join(list) == JoinFrom(list, 1)

\* Array.prototype.indexOf: 0-based index of the first strictly equal
\* element, -1 when there is none
IndexOf(list, x) ==
    IF \E i \in 1..Len(list) : list[i] = x
    THEN (CHOOSE i \in 1..Len(list) :
             list[i] = x /\ \A j \in 1..(i - 1) : list[j] # x) - 1
    ELSE -1

\* Array.prototype.splice(start, 1): a negative start counts from the end
Splice1(list, start) ==
    LET n == Len(list)
        from == IF start < 0 THEN (IF n + start < 0 THEN 0 ELSE n + start)
                ELSE (IF start > n THEN n ELSE start)
    IN  [i \in 1..(IF from < n THEN n - 1 ELSE n) |->
            IF i <= from THEN list[i] ELSE list[i + 1]]

\* ------------------------------------------------------------------- state
VARIABLES
    \* the registry's array of component configurations, in registration order
    registeredComponents_,
    \* the registry's array of live component instances, in creation order
    createdComponents_,
    \* element -> its classList, which no handler of the registry changes
    classList,
    \* element -> value of its 'data-upgraded' attribute (Null when absent)
    dataUpgraded,
    \* element -> class name -> id of the instance stored as element[className]
    \* (0 when the element has no such property)
    expando,
    \* identities handed to the configuration objects and to the instances
    nextConfig, nextInstance,
    \* the calls of the public interface made so far
    calls,
    \* the last call of the public interface: its name, arguments and outcome
    last,
    \* what the last call did outside the registry, in order: events
    \* dispatched, constructors and callbacks called
    trace

vars == <<registeredComponents_, createdComponents_, classList, dataUpgraded,
          expando, nextConfig, nextInstance, calls, last, trace>>

\* element.classList
ClassListOf(e) == classList[e]

\* what findRegisteredClass_ returns when no configuration matches (false)
FalseConfig ==
    [id |-> 0, classConstructor |-> "none", className |-> Undefined,
     cssClass |-> "none", widget |-> FALSE, callbacks |-> <<>>]

\* the part of a configuration object an instance's back-reference is read
\* for: which object it is, and its className
ConfigRef(c) == [id |-> c.id, className |-> c.className]

\* findRegisteredClass_(name) without optReplace: the first configuration
\* whose className is name, or false
FindIndex(name) ==
    IF \E i \in 1..Len(registeredComponents_) :
           registeredComponents_[i].className = name
    THEN CHOOSE i \in 1..Len(registeredComponents_) :
           /\ registeredComponents_[i].className = name
           /\ \A j \in 1..(i - 1) : registeredComponents_[j].className # name
    ELSE 0
findRegisteredClass_(name) ==
    IF FindIndex(name) = 0 THEN FalseConfig
    ELSE registeredComponents_[FindIndex(name)]

\* mutant of findRegisteredClassReplace: the match is taken out and
\* optReplace goes to the end
findRegisteredClassReplaceAtEnd(name, optReplace) ==
    IF FindIndex(name) = 0 THEN registeredComponents_
    ELSE Append(SelectSeq(registeredComponents_, LAMBDA c : c.className # name),
                optReplace)

\* findRegisteredClass_(name, optReplace): the registry after the call; the
\* first match is overwritten in place, and nothing changes without a match
findRegisteredClassReplace(name, optReplace) ==
    IF FindIndex(name) = 0 THEN registeredComponents_
    ELSE [registeredComponents_ EXCEPT ![FindIndex(name)] = optReplace]

\* mutant of getUpgradedListOfElement_: no attribute gives the empty list
getUpgradedListOfElement_Empty(attr) == IF attr = Null THEN <<>> ELSE Split(attr)

\* getUpgradedListOfElement_ on an attribute value
getUpgradedListOfElement_(attr) == IF attr = Null THEN <<(<<>>)>> ELSE Split(attr)

\* mutant of isElementUpgraded_: the check never finds the class
isElementUpgraded_Never(attr, jsClass) == FALSE

\* isElementUpgraded_ on an attribute value
isElementUpgraded_(attr, jsClass) ==
    IndexOf(getUpgradedListOfElement_(attr), jsClass) # -1

\* the outcome of a call that returned; the other outcomes name what it threw
Returned == "returned"

\* the argument of register: constructor, classAsString, cssClass and the
\* optional widget flag
ConfigPublic(ctor, classAsString, cssClass, widgetMissing, widgetValue) ==
    [constructor |-> ctor, classAsString |-> classAsString, cssClass |-> cssClass,
     widgetMissing |-> widgetMissing, widget |-> widgetValue]
NoConfigPublic == ConfigPublic("none", Undefined, "none", TRUE, FALSE)

\* the record of a call of the public interface: the nodes it was given (and
\* whether as an array), the class name, the CSS class, the configuration
NoCall ==
    [op |-> "none", nodes |-> <<>>, isArray |-> FALSE, type |-> Undefined,
     css |-> UndefinedCss, config |-> NoConfigPublic, callback |-> "none",
     outcome |-> Returned]

Init ==
    /\ registeredComponents_ = <<>>
    /\ createdComponents_ = <<>>
    /\ classList = PlainDocument
    /\ dataUpgraded = [e \in Elements |-> Null]
    /\ expando = [e \in Elements |-> [t \in TypeNames |-> 0]]
    /\ nextConfig = 1
    /\ nextInstance = 1
    /\ calls = 0
    /\ last = NoCall
    /\ trace = <<>>

\* ------------------------------------------------------------ registration
\* mutant of NewConfig: the callbacks of the configuration registered under
\* the name are kept
NewConfigKeepCallbacks(config) ==
    [id |-> nextConfig,
     classConstructor |-> config.constructor,
     className |-> config.classAsString,
     cssClass |-> config.cssClass,
     widget |-> IF config.widgetMissing THEN TRUE ELSE config.widget,
     callbacks |-> findRegisteredClass_(config.classAsString).callbacks]

\* the configuration registerInternal builds from its argument
NewConfig(config) ==
    [id |-> nextConfig,
     classConstructor |-> config.constructor,
     className |-> config.classAsString,
     cssClass |-> config.cssClass,
     widget |-> IF config.widgetMissing THEN TRUE ELSE config.widget,
     callbacks |-> <<>>]

\* mutant of RegisterStore: newConfig is pushed whatever was found
RegisterStoreAlwaysPush(classAsString, newConfig) ==
    Append(registeredComponents_, newConfig)

\* the registry after registerInternal stored newConfig
RegisterStore(classAsString, newConfig) ==
    IF findRegisteredClass_(classAsString).id # 0
    THEN findRegisteredClassReplace(classAsString, newConfig)
    ELSE Append(registeredComponents_, newConfig)

\* mutant of registerInternal: the configuration is stored before the
\* constructor's prototype is looked at
registerInternalStoreFirst(config) ==
    [registry |-> RegisterStore(config.classAsString, NewConfig(config)),
     outcome |-> IF HasReservedProperty(config.constructor)
                 THEN "reserved-property" ELSE Returned]

\* what registerInternal(config) leaves in the registry, and how it ends
registerInternal(config) ==
    IF HasReservedProperty(config.constructor)
    THEN [registry |-> registeredComponents_, outcome |-> "reserved-property"]
    ELSE [registry |-> RegisterStore(config.classAsString, NewConfig(config)),
          outcome |-> Returned]

\* mutant of Register: the live instances of the class name are made to
\* refer to the new configuration
RegisterRebinding(config) ==
    /\ calls < MaxCalls
    /\ calls' = calls + 1
    /\ nextConfig' = nextConfig + 1
    /\ registeredComponents_' = registerInternal(config).registry
    /\ last' = [NoCall EXCEPT !.op = "register", !.type = config.classAsString,
                   !.config = config, !.outcome = registerInternal(config).outcome]
    /\ trace' = <<>>
    /\ createdComponents_' =
           [i \in 1..Len(createdComponents_) |->
               IF createdComponents_[i].mdlComponentConfigInternal_.className
                      = config.classAsString
               THEN [createdComponents_[i] EXCEPT
                        !.mdlComponentConfigInternal_ = ConfigRef(NewConfig(config))]
               ELSE createdComponents_[i]]
    /\ UNCHANGED <<classList, dataUpgraded, expando, nextInstance>>

\* componentHandler.register(config)
Register(config) ==
    /\ calls < MaxCalls
    /\ calls' = calls + 1
    /\ nextConfig' = nextConfig + 1
    /\ registeredComponents_' = registerInternal(config).registry
    /\ last' = [NoCall EXCEPT !.op = "register", !.type = config.classAsString,
                   !.config = config, !.outcome = registerInternal(config).outcome]
    /\ trace' = <<>>
    /\ UNCHANGED <<createdComponents_, classList, dataUpgraded, expando,
                   nextInstance>>

\* mutant of registerUpgradedCallbackInternal: without a configuration of
\* that name the callback goes to every configuration
registerUpgradedCallbackInternalAnyClass(jsClass, callback) ==
    IF findRegisteredClass_(jsClass).id # 0
    THEN [registeredComponents_ EXCEPT
             ![FindIndex(jsClass)].callbacks = Append(@, callback)]
    ELSE [i \in 1..Len(registeredComponents_) |->
             [registeredComponents_[i] EXCEPT !.callbacks = Append(@, callback)]]

\* the registry after registerUpgradedCallbackInternal(jsClass, callback)
registerUpgradedCallbackInternal(jsClass, callback) ==
    IF findRegisteredClass_(jsClass).id # 0
    THEN [registeredComponents_ EXCEPT
             ![FindIndex(jsClass)].callbacks = Append(@, callback)]
    ELSE registeredComponents_

\* componentHandler.registerUpgradedCallback(jsClass, callback)
RegisterUpgradedCallback(jsClass, callback) ==
    /\ calls < MaxCalls
    /\ calls' = calls + 1
    /\ registeredComponents_' = registerUpgradedCallbackInternal(jsClass, callback)
    /\ last' = [NoCall EXCEPT !.op = "registerUpgradedCallback", !.type = jsClass,
                   !.callback = callback]
    /\ trace' = <<>>
    /\ UNCHANGED <<createdComponents_, classList, dataUpgraded, expando,
                   nextConfig, nextInstance>>

\* ----------------------------------------------------------------- machine
\* The registry and document state a handler works on while it runs, with
\* the constructors and callbacks called so far (userCalls) and what was
\* thrown (err, "none" while it runs).
Machine ==
    [attr |-> dataUpgraded, created |-> createdComponents_, props |-> expando,
     nextInst |-> nextInstance, trace |-> <<>>, userCalls |-> 0, err |-> "none"]

\* What the page's code does during one handler: nothing special, or a
\* listener cancels the 'mdl-componentupgrading' event of one element, or
\* the failAt-th call of a constructor or callback throws (0: none does).
Environment(cancelled, failAt) == [cancelled |-> cancelled, failAt |-> failAt]
\* the environments of an upgrade of one element
Environments(element) ==
    {Environment({}, 0), Environment({element}, 0)}
    \cup {Environment({}, n) : n \in 1..3}
\* the environments of an upgrade of many elements
BulkEnvironments ==
    {Environment({}, 0), Environment({"e1"}, 0), Environment({}, 2)}

\* the environment did what it was chosen to do: the cancelled event was
\* dispatched, the throwing call was made
Happened(env, m) ==
    /\ \A e \in env.cancelled :
           \E k \in 1..Len(m.trace) : m.trace[k].el = e /\ m.trace[k].cancelled
    /\ env.failAt # 0 => m.err = "user-code"

\* ids of the live instances, in the order of createdComponents_
LiveIds(created) == [i \in 1..Len(created) |-> created[i].id]

\* one entry of the trace: an event dispatched on el, or a constructor or
\* callback called with el, for the component class type (Undefined for the
\* 'mdl-componentupgrading' event, which is for no class); with the
\* attribute of el, the properties of el and createdComponents_ at that moment
Entry(m, kind, name, el, type, cancelled) ==
    [kind |-> kind, name |-> name, el |-> el, type |-> type,
     cancelled |-> cancelled, attr |-> m.attr[el], created |-> m.created,
     props |-> m.props[el]]

\* element.dispatchEvent(createEvent_(eventType, ...))
Dispatch(m, eventType, el, type, cancelled) ==
    [m EXCEPT !.trace = Append(@, Entry(m, "event", eventType, el, type, cancelled))]

\* a call of code the page supplied, a "constructor" or a "callback": the
\* failAt-th such call of the handler throws
UserCall(m, kind, name, el, type, failAt) ==
    [m EXCEPT !.trace = Append(@, Entry(m, kind, name, el, type, FALSE)),
              !.userCalls = @ + 1,
              !.err = IF m.userCalls + 1 = failAt THEN "user-code" ELSE @]

Throw(m, what) == [m EXCEPT !.err = what]

\* --------------------------------------------------------- upgradeElement
\* mutant of RunCallbacks: the callbacks are called last to first
RECURSIVE RunCallbacksReversed(_, _, _, _, _)
RunCallbacksReversed(m, element, registeredClass, j, failAt) ==
    IF j > Len(registeredClass.callbacks) \/ m.err # "none" THEN m
    ELSE RunCallbacksReversed(
             UserCall(m, "callback",
                      registeredClass.callbacks[Len(registeredClass.callbacks) - j + 1],
                      element, registeredClass.className, failAt),
             element, registeredClass, j + 1, failAt)

\* lines 248-250: the callbacks of registeredClass from the j-th on
RECURSIVE RunCallbacks(_, _, _, _, _)
RunCallbacks(m, element, registeredClass, j, failAt) ==
    IF j > Len(registeredClass.callbacks) \/ m.err # "none" THEN m
    ELSE RunCallbacks(UserCall(m, "callback", registeredClass.callbacks[j],
                               element, registeredClass.className, failAt),
                      element, registeredClass, j + 1, failAt)

\* line 244: new registeredClass.classConstructor(element); the constructors
\* of the components store the element as this.element_
Construct(m, element, registeredClass) ==
    [id |-> m.nextInst, element_ |-> element,
     mdlComponentConfigInternal_ |-> ConfigRef(registeredClass)]

\* mutant of MarkAndCreate: the constructor is called before the element is
\* marked
MarkAndCreateUnmarked(m, element, registeredClass, upgradedList, failAt) ==
    LET called == UserCall(m, "constructor",
                           registeredClass.classConstructor, element,
                           registeredClass.className, failAt)
    IN  IF called.err # "none" THEN called
        ELSE [called EXCEPT
                 !.attr[element] = Join(upgradedList),
                 !.created = Append(@, Construct(called, element, registeredClass)),
                 !.nextInst = @ + 1]

\* lines 241-246: mark the element, construct the instance and append it to
\* createdComponents_ (upgradedList already holds the new class name)
MarkAndCreate(m, element, registeredClass, upgradedList, failAt) ==
    LET marked == [m EXCEPT !.attr[element] = Join(upgradedList)]
        called == UserCall(marked, "constructor",
                           registeredClass.classConstructor, element,
                           registeredClass.className, failAt)
    IN  IF called.err # "none" THEN called
        ELSE [called EXCEPT
                 !.created = Append(@, Construct(called, element, registeredClass)),
                 !.nextInst = @ + 1]

\* mutant of Expose: the instance is attached whatever the widget flag is
ExposeAlways(m, element, registeredClass) ==
    [m EXCEPT !.props[element][registeredClass.className] =
                  m.created[Len(m.created)].id]

\* lines 252-255: element[registeredClass.className] = instance
Expose(m, element, registeredClass) ==
    IF registeredClass.widget
    THEN [m EXCEPT !.props[element][registeredClass.className] =
                       m.created[Len(m.created)].id]
    ELSE m

\* mutant of UpgradeRound: the element is marked before the registered
\* class is looked at
UpgradeRoundMarkFirst(m, element, registeredClass, upgradedList, failAt) ==
    IF registeredClass.id = 0
    THEN Throw([m EXCEPT !.attr[element] = Join(Append(upgradedList, Undefined))],
               "no-registered-component")
    ELSE LET created == MarkAndCreate(m, element, registeredClass,
                                      upgradedList, failAt)
             called == RunCallbacks(created, element, registeredClass, 1, failAt)
         IN  IF created.err # "none" THEN created
             ELSE IF called.err # "none" THEN called
             ELSE Dispatch(Expose(called, element, registeredClass),
                           "mdl-componentupgraded", element,
                           registeredClass.className, FALSE)

\* lines 239-262: one round of the loop over classesToUpgrade
UpgradeRound(m, element, registeredClass, upgradedList, failAt) ==
    IF registeredClass.id = 0
    THEN Throw(m, "no-registered-component")
    ELSE LET created == MarkAndCreate(m, element, registeredClass,
                                      upgradedList, failAt)
             called == RunCallbacks(created, element, registeredClass, 1, failAt)
         IN  IF created.err # "none" THEN created
             ELSE IF called.err # "none" THEN called
             ELSE Dispatch(Expose(called, element, registeredClass),
                           "mdl-componentupgraded", element,
                           registeredClass.className, FALSE)

\* lines 238-263: the loop, from the i-th class on; upgradedList is the local
\* array that line 219 read once and line 242 pushes to
RECURSIVE UpgradeLoop(_, _, _, _, _, _)
UpgradeLoop(m, element, classesToUpgrade, i, upgradedList, failAt) ==
    IF i > Len(classesToUpgrade) \/ m.err # "none" THEN m
    ELSE LET pushed == IF classesToUpgrade[i].id = 0 THEN upgradedList
                       ELSE Append(upgradedList, classesToUpgrade[i].className)
         IN  UpgradeLoop(
                 UpgradeRound(m, element, classesToUpgrade[i], pushed, failAt),
                 element, classesToUpgrade, i + 1, pushed, failAt)

\* mutant of ScanRegistered: one component at most is taken
RECURSIVE ScanRegisteredOnlyOne(_, _, _, _)
ScanRegisteredOnlyOne(attr, element, k, classesToUpgrade) ==
    IF k > Len(registeredComponents_) THEN classesToUpgrade
    ELSE LET component == registeredComponents_[k]
         IN  ScanRegisteredOnlyOne(attr, element, k + 1,
                 IF /\ component.cssClass \in ClassListOf(element)
                    /\ classesToUpgrade = <<>>
                    /\ ~isElementUpgraded_(attr, component.className)
                 THEN Append(classesToUpgrade, component)
                 ELSE classesToUpgrade)

\* lines 225-232: the registered components matching the element's classList
\* that are not in classesToUpgrade yet and that the element is not upgraded to
RECURSIVE ScanRegistered(_, _, _, _)
ScanRegistered(attr, element, k, classesToUpgrade) ==
    IF k > Len(registeredComponents_) THEN classesToUpgrade
    ELSE LET component == registeredComponents_[k]
         IN  ScanRegistered(attr, element, k + 1,
                 IF /\ component.cssClass \in ClassListOf(element)
                    /\ IndexOf(classesToUpgrade, component) = -1
                    /\ ~isElementUpgraded_(attr, component.className)
                 THEN Append(classesToUpgrade, component)
                 ELSE classesToUpgrade)

\* mutant of ClassesToUpgrade: the registered components are scanned by CSS
\* class even when a class name is given
ClassesToUpgradeByCss(attr, element, optJsClass) ==
    ScanRegistered(attr, element, 1, <<>>)

\* lines 220-235: classesToUpgrade
ClassesToUpgrade(attr, element, optJsClass) ==
    IF Falsy(optJsClass) THEN ScanRegistered(attr, element, 1, <<>>)
    ELSE IF ~isElementUpgraded_(attr, optJsClass)
    THEN <<findRegisteredClass_(optJsClass)>>
    ELSE <<>>

\* mutant of upgradeElementInternal: what is no element is passed over
upgradeElementInternalUnchecked(m, element, optJsClass, cancelled, failAt) ==
    IF m.err # "none" \/ element \notin Elements THEN m
    ELSE LET upgrading == Dispatch(m, "mdl-componentupgrading", element,
                                   Undefined, element \in cancelled)
         IN  IF element \in cancelled THEN upgrading
             ELSE UpgradeLoop(upgrading, element,
                      ClassesToUpgrade(upgrading.attr[element], element, optJsClass),
                      1, getUpgradedListOfElement_(upgrading.attr[element]), failAt)

\* mutant of upgradeElementInternal: defaultPrevented is not looked at
upgradeElementInternalNoCancel(m, element, optJsClass, cancelled, failAt) ==
    IF m.err # "none" THEN m
    ELSE IF element \notin Elements THEN Throw(m, "invalid-argument")
    ELSE LET upgrading == Dispatch(m, "mdl-componentupgrading", element,
                                   Undefined, element \in cancelled)
         IN  UpgradeLoop(upgrading, element,
                 ClassesToUpgrade(upgrading.attr[element], element, optJsClass),
                 1, getUpgradedListOfElement_(upgrading.attr[element]), failAt)

\* upgradeElementInternal(element, optJsClass): cancelled is the set of
\* targets on which a listener cancels 'mdl-componentupgrading'
upgradeElementInternal(m, element, optJsClass, cancelled, failAt) ==
    IF m.err # "none" THEN m
    ELSE IF element \notin Elements THEN Throw(m, "invalid-argument")
    ELSE LET upgrading == Dispatch(m, "mdl-componentupgrading", element,
                                   Undefined, element \in cancelled)
         IN  IF element \in cancelled THEN upgrading
             ELSE UpgradeLoop(upgrading, element,
                      ClassesToUpgrade(upgrading.attr[element], element, optJsClass),
                      1, getUpgradedListOfElement_(upgrading.attr[element]), failAt)

\* the state a handler leaves behind
Commit(m) ==
    /\ calls < MaxCalls
    /\ calls' = calls + 1
    /\ createdComponents_' = m.created
    /\ dataUpgraded' = m.attr
    /\ expando' = m.props
    /\ nextInstance' = m.nextInst
    /\ trace' = m.trace
    /\ UNCHANGED <<registeredComponents_, classList, nextConfig>>

Outcome(m) == IF m.err = "none" THEN Returned ELSE m.err

\* componentHandler.upgradeElement(element, optJsClass)
UpgradeElement(element, optJsClass, cancelled, failAt) ==
    LET m == upgradeElementInternal(Machine, element, optJsClass, cancelled, failAt)
    IN  /\ Commit(m)
        /\ Happened([cancelled |-> cancelled, failAt |-> failAt], m)
        /\ last' = [NoCall EXCEPT !.op = "upgradeElement", !.nodes = <<element>>,
                       !.type = optJsClass, !.outcome = Outcome(m)]

\* ------------------------------------------------------------ bulk upgrade
\* document.querySelectorAll('.' + optCssClass): the elements carrying the
\* class, in document order
QuerySelectorAll(optCssClass) ==
    SelectSeq(DocumentOrder, LAMBDA e : CssToString(optCssClass) \in ClassListOf(e))

\* mutant of UpgradeEach: the loop ends at an element whose
\* 'mdl-componentupgrading' event is cancelled
RECURSIVE UpgradeEachUntilCancelled(_, _, _, _, _, _)
UpgradeEachUntilCancelled(m, elements, n, jsClass, cancelled, failAt) ==
    IF n > Len(elements) \/ m.err # "none" THEN m
    ELSE IF elements[n] \in cancelled
    THEN upgradeElementInternal(m, elements[n], jsClass, cancelled, failAt)
    ELSE UpgradeEachUntilCancelled(
             upgradeElementInternal(m, elements[n], jsClass, cancelled, failAt),
             elements, n + 1, jsClass, cancelled, failAt)

\* lines 194-196: upgrade the elements from the n-th on for jsClass
RECURSIVE UpgradeEach(_, _, _, _, _, _)
UpgradeEach(m, elements, n, jsClass, cancelled, failAt) ==
    IF n > Len(elements) \/ m.err # "none" THEN m
    ELSE UpgradeEach(
             upgradeElementInternal(m, elements[n], jsClass, cancelled, failAt),
             elements, n + 1, jsClass, cancelled, failAt)

\* mutant of UpgradeDomClass: the CSS class of the registered component is
\* taken whenever there is one, whatever CSS class was given
UpgradeDomClassByMarker(m, optJsClass, optCssClass, cancelled, failAt) ==
    LET cssClass == IF FindIndex(optJsClass) # 0
                    THEN findRegisteredClass_(optJsClass).cssClass
                    ELSE optCssClass
    IN  UpgradeEach(m, QuerySelectorAll(cssClass), 1, optJsClass, cancelled, failAt)

\* lines 185-196: upgradeDomInternal with at least one argument given
UpgradeDomClass(m, optJsClass, optCssClass, cancelled, failAt) ==
    LET cssClass == IF optCssClass = UndefinedCss /\ FindIndex(optJsClass) # 0
                    THEN findRegisteredClass_(optJsClass).cssClass
                    ELSE optCssClass
    IN  UpgradeEach(m, QuerySelectorAll(cssClass), 1, optJsClass, cancelled, failAt)

\* lines 180-183: one pass per registered component, from the i-th on
RECURSIVE UpgradeDomAll(_, _, _, _)
UpgradeDomAll(m, i, cancelled, failAt) ==
    IF i > Len(registeredComponents_) \/ m.err # "none" THEN m
    ELSE UpgradeDomAll(
             UpgradeDomClass(m, registeredComponents_[i].className,
                             registeredComponents_[i].cssClass, cancelled, failAt),
             i + 1, cancelled, failAt)

\* upgradeDomInternal(optJsClass, optCssClass)
upgradeDomInternal(m, optJsClass, optCssClass, cancelled, failAt) ==
    IF optJsClass = Undefined /\ optCssClass = UndefinedCss
    THEN UpgradeDomAll(m, 1, cancelled, failAt)
    ELSE UpgradeDomClass(m, optJsClass, optCssClass, cancelled, failAt)

\* componentHandler.upgradeDom(optJsClass, optCssClass)
UpgradeDom(optJsClass, optCssClass, cancelled, failAt) ==
    LET m == upgradeDomInternal(Machine, optJsClass, optCssClass, cancelled, failAt)
    IN  /\ Commit(m)
        /\ Happened([cancelled |-> cancelled, failAt |-> failAt], m)
        /\ last' = [NoCall EXCEPT !.op = "upgradeDom", !.type = optJsClass,
                       !.css = optCssClass, !.outcome = Outcome(m)]

\* upgradeAllRegisteredInternal(): one pass per registered component, by
\* class name alone, from the n-th on
RECURSIVE upgradeAllRegisteredInternal(_, _, _, _)
upgradeAllRegisteredInternal(m, n, cancelled, failAt) ==
    IF n > Len(registeredComponents_) \/ m.err # "none" THEN m
    ELSE upgradeAllRegisteredInternal(
             upgradeDomInternal(m, registeredComponents_[n].className,
                                UndefinedCss, cancelled, failAt),
             n + 1, cancelled, failAt)

\* componentHandler.upgradeAllRegistered()
UpgradeAllRegistered(cancelled, failAt) ==
    LET m == upgradeAllRegisteredInternal(Machine, 1, cancelled, failAt)
    IN  /\ Commit(m)
        /\ Happened([cancelled |-> cancelled, failAt |-> failAt], m)
        /\ last' = [NoCall EXCEPT !.op = "upgradeAllRegistered",
                       !.outcome = Outcome(m)]

\* mutant of upgradeElementsInternal: the children come before the element
RECURSIVE upgradeElementsInternalChildrenFirst(_, _, _, _, _)
upgradeElementsInternalChildrenFirst(m, elements, i, cancelled, failAt) ==
    IF i > Len(elements) \/ m.err # "none" THEN m
    ELSE IF elements[i] \notin Elements
    THEN upgradeElementsInternalChildrenFirst(m, elements, i + 1, cancelled, failAt)
    ELSE LET sub == IF Len(ChildrenOf(elements[i])) > 0
                    THEN upgradeElementsInternalChildrenFirst(
                             m, ChildrenOf(elements[i]), 1, cancelled, failAt)
                    ELSE m
             own == upgradeElementInternal(sub, elements[i], Undefined,
                                           cancelled, failAt)
         IN  upgradeElementsInternalChildrenFirst(own, elements, i + 1,
                                                  cancelled, failAt)

\* upgradeElementsInternal(elements) on the array lines 273-279 make of the
\* argument, from the i-th element on: each HTMLElement, then its children
RECURSIVE upgradeElementsInternal(_, _, _, _, _)
upgradeElementsInternal(m, elements, i, cancelled, failAt) ==
    IF i > Len(elements) \/ m.err # "none" THEN m
    ELSE IF elements[i] \notin Elements
    THEN upgradeElementsInternal(m, elements, i + 1, cancelled, failAt)
    ELSE LET own == upgradeElementInternal(m, elements[i], Undefined,
                                           cancelled, failAt)
             sub == IF Len(ChildrenOf(elements[i])) > 0
                    THEN upgradeElementsInternal(own, ChildrenOf(elements[i]), 1,
                                                 cancelled, failAt)
                    ELSE own
         IN  upgradeElementsInternal(sub, elements, i + 1, cancelled, failAt)

\* componentHandler.upgradeElements(elements): one element, or an array
UpgradeElements(elements, isArray, cancelled, failAt) ==
    LET m == upgradeElementsInternal(Machine, elements, 1, cancelled, failAt)
    IN  /\ Commit(m)
        /\ Happened([cancelled |-> cancelled, failAt |-> failAt], m)
        /\ last' = [NoCall EXCEPT !.op = "upgradeElements", !.nodes = elements,
                       !.isArray = isArray, !.outcome = Outcome(m)]

\* ---------------------------------------------------------------- downgrade
\* component[componentConfigProperty_].classAsString (line 372): the
\* configuration objects registerInternal builds (lines 309-315) have the
\* keys classConstructor, className, cssClass, widget and callbacks, and no
\* key classAsString
ClassAsStringOf(config) == Undefined

\* mutant of deconstructComponentInternal: the attribute is left as it is
deconstructComponentInternalKeepList(m, component) ==
    LET componentIndex == IndexOf(LiveIds(m.created), component.id)
        removed == [m EXCEPT !.created = Splice1(@, componentIndex)]
        element == component.element_
    IN  IF removed.attr[element] = Null THEN Throw(removed, "type-error")
        ELSE Dispatch(removed, "mdl-componentdowngraded", element,
                      component.mdlComponentConfigInternal_.className, FALSE)

\* deconstructComponentInternal(component)
deconstructComponentInternal(m, component) ==
    LET componentIndex == IndexOf(LiveIds(m.created), component.id)
        removed == [m EXCEPT !.created = Splice1(@, componentIndex)]
        element == component.element_
    IN  IF removed.attr[element] = Null THEN Throw(removed, "type-error")
        ELSE LET upgrades == Split(removed.attr[element])
                 componentPlace ==
                     IndexOf(upgrades,
                             ClassAsStringOf(component.mdlComponentConfigInternal_))
                 written == [removed EXCEPT !.attr[element] =
                                Join(Splice1(upgrades, componentPlace))]
             IN  Dispatch(written, "mdl-componentdowngraded", element,
                          component.mdlComponentConfigInternal_.className, FALSE)

\* lines 392-394: forEach over the components filter() found, from the k-th on
RECURSIVE DeconstructEach(_, _, _)
DeconstructEach(m, components, k) ==
    IF k > Len(components) \/ m.err # "none" THEN m
    ELSE DeconstructEach(deconstructComponentInternal(m, components[k]),
                         components, k + 1)

\* mutant of downgradeNode: the components of the node's children are
\* deconstructed too
downgradeNodeWithChildren(m, node) ==
    DeconstructEach(m, SelectSeq(m.created,
        LAMBDA item : \/ item.element_ = node
                      \/ /\ node \in Elements
                         /\ \E i \in 1..Len(ChildrenOf(node)) :
                                ChildrenOf(node)[i] = item.element_), 1)

\* downgradeNode(node)
downgradeNode(m, node) ==
    DeconstructEach(m, SelectSeq(m.created, LAMBDA item : item.element_ = node), 1)

\* lines 397-399: the nodes of an array, from the n-th on
RECURSIVE DowngradeEach(_, _, _)
DowngradeEach(m, nodes, n) ==
    IF n > Len(nodes) \/ m.err # "none" THEN m
    ELSE DowngradeEach(downgradeNode(m, nodes[n]), nodes, n + 1)

\* mutant of downgradeNodesInternal: a value that is no node is passed to
\* downgradeNode like a node
downgradeNodesInternalAnyValue(m, nodes, isArray) ==
    IF isArray THEN DowngradeEach(m, nodes, 1)
    ELSE downgradeNode(m, nodes[1])

\* downgradeNodesInternal(nodes): nodes is an array (isArray) or one value
downgradeNodesInternal(m, nodes, isArray) ==
    IF isArray THEN DowngradeEach(m, nodes, 1)
    ELSE IF nodes[1] \in Elements THEN downgradeNode(m, nodes[1])
    ELSE Throw(m, "invalid-argument")

\* componentHandler.downgradeElements(nodes)
DowngradeElements(nodes, isArray) ==
    LET m == downgradeNodesInternal(Machine, nodes, isArray)
    IN  /\ Commit(m)
        /\ last' = [NoCall EXCEPT !.op = "downgradeElements", !.nodes = nodes,
                       !.isArray = isArray, !.outcome = Outcome(m)]

\* ------------------------------------------------------------ specification
\* what the page can pass for a node: an element or a value that is none
Values == Elements \cup {NotANode}
\* the arrays the page passes
Arrays == {<<>>, <<"e2", "e1">>, <<NotANode, "e2">>}
\* the configurations the page registers: two for Widget, which differ in
\* constructor, CSS class and widget flag, one for Tabs, and one whose
\* constructor has the reserved property
ConfigsPublic ==
    {ConfigPublic("CtorA", Widget, "w-js", TRUE, FALSE),
     ConfigPublic("CtorB", Widget, "t-js", FALSE, FALSE),
     ConfigPublic("CtorB", Tabs, "t-js", FALSE, TRUE),
     ConfigPublic("CtorReserved", Widget, "w-js", FALSE, TRUE)}
\* the arguments the page calls upgradeDom with
UpgradeDomArguments ==
    {<<Undefined, UndefinedCss>>, <<Widget, UndefinedCss>>, <<Tabs, UndefinedCss>>,
     <<Widget, "t-js">>, <<Undefined, "w-js">>}

Next ==
    \/ \E config \in ConfigsPublic : Register(config)
    \/ \E jsClass \in TypeNames, callback \in Callbacks :
           RegisterUpgradedCallback(jsClass, callback)
    \/ \E element \in Elements, optJsClass \in TypeNames \cup {Undefined} :
           \E env \in Environments(element) :
               UpgradeElement(element, optJsClass, env.cancelled, env.failAt)
    \/ UpgradeElement(NotANode, Undefined, {}, 0)
    \/ \E args \in UpgradeDomArguments, env \in BulkEnvironments :
           UpgradeDom(args[1], args[2], env.cancelled, env.failAt)
    \/ \E env \in BulkEnvironments : UpgradeAllRegistered(env.cancelled, env.failAt)
    \/ \E elements \in Arrays \ {<<>>}, env \in BulkEnvironments :
           UpgradeElements(elements, TRUE, env.cancelled, env.failAt)
    \/ \E env \in BulkEnvironments :
           UpgradeElements(<<"e1">>, FALSE, env.cancelled, env.failAt)
    \/ \E nodes \in Arrays : DowngradeElements(nodes, TRUE)
    \/ \E node \in Values : DowngradeElements(<<node>>, FALSE)

Spec == Init /\ [][Next]_vars

\* ------------------------------------------- any page and any registration
\* pages whose elements carry other classes: none, or the class named
\* "undefined", which is what '.' + optCssClass selects when upgradeDomInternal
\* has no CSS class
Documents ==
    {PlainDocument,
     [e \in Elements |-> IF e = "e1" THEN {"undefined"} ELSE {"w-js", "t-js"}],
     [e \in Elements |-> IF e = "e1" THEN {} ELSE {"t-js"}]}
\* register({constructor: ..., cssClass: 't-js', widget: false}): no
\* classAsString, so that the configuration's className is undefined
NamelessConfig == ConfigPublic("CtorB", Undefined, "t-js", FALSE, FALSE)
\* register({constructor: ..., classAsString: '', cssClass: 't-js',
\* widget: false}): the configuration's className is the empty string
EmptyNameConfig == ConfigPublic("CtorB", <<>>, "t-js", FALSE, FALSE)
ConfigsAnyPage ==
    {ConfigPublic("CtorA", Widget, "w-js", TRUE, FALSE),
     ConfigPublic("CtorB", Tabs, "t-js", FALSE, TRUE),
     NamelessConfig, EmptyNameConfig}

InitAnyPage ==
    /\ registeredComponents_ = <<>>
    /\ createdComponents_ = <<>>
    /\ classList \in Documents
    /\ dataUpgraded = [e \in Elements |-> Null]
    /\ expando = [e \in Elements |-> [t \in TypeNames |-> 0]]
    /\ nextConfig = 1
    /\ nextInstance = 1
    /\ calls = 0
    /\ last = NoCall
    /\ trace = <<>>

NextAnyPage ==
    \/ \E config \in ConfigsAnyPage : Register(config)
    \/ \E optJsClass \in TypeNames \cup {Undefined}, env \in BulkEnvironments :
           UpgradeDom(optJsClass, UndefinedCss, env.cancelled, env.failAt)
    \/ \E env \in BulkEnvironments : UpgradeAllRegistered(env.cancelled, env.failAt)
    \/ \E element \in Elements : UpgradeElement(element, Undefined, {}, 0)
    \/ \E node \in Elements : DowngradeElements(<<node>>, FALSE)

\* the registry on any of the pages, with any of the registrations
SpecAnyPage == InitAnyPage /\ [][NextAnyPage]_vars

\* ------------------------------------------------ a page that never throws
\* the environments in which no constructor and no callback throws; a
\* listener can still cancel 'mdl-componentupgrading'
QuietEnvironments(element) == {env \in Environments(element) : env.failAt = 0}
QuietBulkEnvironments == {env \in BulkEnvironments : env.failAt = 0}

NextQuiet ==
    \/ \E config \in ConfigsPublic : Register(config)
    \/ \E jsClass \in TypeNames, callback \in Callbacks :
           RegisterUpgradedCallback(jsClass, callback)
    \/ \E element \in Elements, optJsClass \in TypeNames \cup {Undefined} :
           \E env \in QuietEnvironments(element) :
               UpgradeElement(element, optJsClass, env.cancelled, env.failAt)
    \/ UpgradeElement(NotANode, Undefined, {}, 0)
    \/ \E args \in UpgradeDomArguments, env \in QuietBulkEnvironments :
           UpgradeDom(args[1], args[2], env.cancelled, env.failAt)
    \/ \E env \in QuietBulkEnvironments :
           UpgradeAllRegistered(env.cancelled, env.failAt)
    \/ \E elements \in Arrays \ {<<>>}, env \in QuietBulkEnvironments :
           UpgradeElements(elements, TRUE, env.cancelled, env.failAt)
    \/ \E env \in QuietBulkEnvironments :
           UpgradeElements(<<"e1">>, FALSE, env.cancelled, env.failAt)
    \/ \E nodes \in Arrays : DowngradeElements(nodes, TRUE)
    \/ \E node \in Values : DowngradeElements(<<node>>, FALSE)

\* the registry on a page whose constructors, callbacks and listeners
\* neither throw nor call componentHandler
SpecQuiet == Init /\ [][NextQuiet]_vars

\* ------------------------------------- upgradeDom with both arguments
\* the page calls upgradeDom with a class name and a CSS class, any of them,
\* and its listeners cancel 'mdl-componentupgrading' on any of the elements
NextBothGiven ==
    \/ \E config \in ConfigsPublic : Register(config)
    \/ \E jsClass \in TypeNames, cssClass \in CssClasses :
           \E cancelled \in SUBSET Elements :
               UpgradeDom(jsClass, cssClass, cancelled, 0)
    \/ \E element \in Elements : UpgradeElement(element, Undefined, {}, 0)
    \/ \E node \in Elements : DowngradeElements(<<node>>, FALSE)

SpecBothGiven == Init /\ [][NextBothGiven]_vars

\* --------------------------- a registration without name and CSS class
\* register({constructor: ...}): neither classAsString nor cssClass, so that
\* className and cssClass of the stored configuration are both undefined
BareConfig == ConfigPublic("CtorB", Undefined, UndefinedCss, FALSE, FALSE)
ConfigsNested ==
    {ConfigPublic("CtorA", Widget, "w-js", TRUE, FALSE),
     ConfigPublic("CtorB", Tabs, "t-js", FALSE, TRUE),
     BareConfig}

\* the frames of upgradeDomInternal the call stack has room for
MaxDepth == 3
\* the RangeError of a call stack that is exhausted: what ends a call of
\* upgradeDomInternal whose nested calls never end
StackExhausted == "stack-exhausted"

\* upgradeDomInternal(optJsClass, optCssClass) as the depth-th nested frame
\* of itself: line 181 calls it again with the className and the cssClass
\* of every registered component, and the test of lines 178-179 is made
\* again on those
RECURSIVE upgradeDomInternalNested(_, _, _, _, _, _)
RECURSIVE UpgradeDomAllNested(_, _, _, _, _)
UpgradeDomAllNested(m, i, depth, cancelled, failAt) ==
    IF i > Len(registeredComponents_) \/ m.err # "none" THEN m
    ELSE UpgradeDomAllNested(
             upgradeDomInternalNested(m, registeredComponents_[i].className,
                                      registeredComponents_[i].cssClass,
                                      depth + 1, cancelled, failAt),
             i + 1, depth, cancelled, failAt)

upgradeDomInternalNested(m, optJsClass, optCssClass, depth, cancelled, failAt) ==
    IF depth > MaxDepth THEN [m EXCEPT !.err = StackExhausted]
    ELSE IF optJsClass = Undefined /\ optCssClass = UndefinedCss
    THEN UpgradeDomAllNested(m, 1, depth, cancelled, failAt)
    ELSE UpgradeDomClass(m, optJsClass, optCssClass, cancelled, failAt)

\* componentHandler.upgradeDom() without arguments
UpgradeDomNested(cancelled, failAt) ==
    \E m \in {upgradeDomInternalNested(Machine, Undefined, UndefinedCss, 1,
                                       cancelled, failAt)} :
        /\ Commit(m)
        /\ Happened([cancelled |-> cancelled, failAt |-> failAt], m)
        /\ last' = [NoCall EXCEPT !.op = "upgradeDom", !.outcome = Outcome(m)]

\* upgradeAllRegisteredInternal(), from the n-th registered component on:
\* line 355 gives upgradeDomInternal the className alone
RECURSIVE upgradeAllRegisteredInternalNested(_, _, _, _)
upgradeAllRegisteredInternalNested(m, n, cancelled, failAt) ==
    IF n > Len(registeredComponents_) \/ m.err # "none" THEN m
    ELSE upgradeAllRegisteredInternalNested(
             upgradeDomInternalNested(m, registeredComponents_[n].className,
                                      UndefinedCss, 1, cancelled, failAt),
             n + 1, cancelled, failAt)

\* componentHandler.upgradeAllRegistered()
UpgradeAllRegisteredNested(cancelled, failAt) ==
    \E m \in {upgradeAllRegisteredInternalNested(Machine, 1, cancelled, failAt)} :
        /\ Commit(m)
        /\ Happened([cancelled |-> cancelled, failAt |-> failAt], m)
        /\ last' = [NoCall EXCEPT !.op = "upgradeAllRegistered",
                       !.outcome = Outcome(m)]

\* the page registers any of the three configurations and upgrades in bulk;
\* its constructors and listeners end and do not call the registry
NextNested ==
    \/ \E config \in ConfigsNested : Register(config)
    \/ \E env \in QuietBulkEnvironments : UpgradeDomNested(env.cancelled, env.failAt)
    \/ \E env \in QuietBulkEnvironments :
           UpgradeAllRegisteredNested(env.cancelled, env.failAt)
    \/ \E elements \in Arrays \ {<<>>}, env \in QuietBulkEnvironments :
           UpgradeElements(elements, TRUE, env.cancelled, env.failAt)
    \/ \E node \in Elements : DowngradeElements(<<node>>, FALSE)

SpecNested == Init /\ [][NextNested]_vars

\* ------------------------------------------- calls from inside a handler
\* Constructors, callbacks and event listeners run inside the handlers and
\* can call componentHandler themselves.  One constructor of this repository
\* does: MaterialDataTable (line 4078) calls init, init calls createCheckbox_
\* for a selectable table (lines 4188-4191), and createCheckbox_ calls
\* componentHandler.upgradeElement(label, 'MaterialCheckbox') (line 4176).
MaterialCheckbox ==
    <<"M", "a", "t", "e", "r", "i", "a", "l", "C", "h", "e", "c", "k", "b", "o", "x">>
MaterialDataTable ==
    <<"M", "a", "t", "e", "r", "i", "a", "l", "D", "a", "t", "a", "T", "a", "b", "l", "e">>
\* every class name a page of this model registers
AllTypeNames == TypeNames \cup {MaterialCheckbox, MaterialDataTable}
\* the element createCheckbox_ creates; "e2" is a child of "e1", as the label
\* is of the table once init has inserted it
Label == "e2"
\* label.className (lines 4159-4165)
LabelClasses ==
    {"mdl-checkbox", "mdl-js-checkbox", "mdl-js-ripple-effect",
     "mdl-data-table__select"}
\* a page whose element e1 is a selectable data table without rows; the
\* label does not exist yet
TablePage ==
    [e \in Elements |-> IF e = "e1"
                        THEN {"mdl-js-data-table", "mdl-data-table--selectable"}
                        ELSE {}]
DocumentsReentrant == {PlainDocument, TablePage}
\* the elements the page has
Existing(classes) == {e \in Elements : classes[e] # {}}

\* the machine of a handler, with the class lists, which a constructor can
\* change, and whether the page's code has made its call
MachineReentrant ==
    [attr |-> dataUpgraded, created |-> createdComponents_, props |-> expando,
     nextInst |-> nextInstance, trace |-> <<>>, userCalls |-> 0, err |-> "none",
     classes |-> classList, reacted |-> FALSE]

\* what code of the page does inside a handler: the constructor, a callback
\* or the 'mdl-componentupgraded' listener ("event") of class type calls
\* componentHandler.upgradeElement(el) or componentHandler.downgradeElements(el),
\* once
NoReaction == [kind |-> "none", type |-> Undefined, op |-> "none", el |-> "e1"]
Reactions(element) ==
    {NoReaction}
    \cup {[kind |-> kind, type |-> type, op |-> op, el |-> element] :
              kind \in {"constructor", "callback", "event"},
              type \in TypeNames,
              op \in {"upgradeElement", "downgradeElements"}}

\* F(x), with x evaluated once however often F uses it: the statements of a
\* handler run one after the other, each on the state the one before left
Then(x, F(_)) == CHOOSE result \in {F(value) : value \in {x}} : TRUE

\* a call of componentHandler made while a handler runs: the trace records
\* where it begins and where it ends
NestedCall(m, op, el, optJsClass) ==
    Then([m EXCEPT !.trace = Append(@, Entry(m, "begin", op, el,
                                             optJsClass, FALSE))],
         LAMBDA begun :
    Then(IF op = "upgradeElement"
         THEN upgradeElementInternal(begun, el, optJsClass, {}, 0)
         ELSE downgradeNodesInternal(begun, <<el>>, FALSE),
         LAMBDA done :
    [done EXCEPT !.trace = Append(@, Entry(done, "end", op, el,
                                           optJsClass, FALSE))]))

\* the page's code of this kind for this class runs: it makes its call
React(m, reaction, kind, type) ==
    IF /\ m.err = "none"
       /\ ~m.reacted
       /\ reaction.kind = kind
       /\ reaction.type = type
    THEN NestedCall([m EXCEPT !.reacted = TRUE], reaction.op, reaction.el,
                    Undefined)
    ELSE m

\* MaterialDataTable.prototype.createCheckbox_(null, rows): the label is a
\* new element; the page of the model has one element to create
createCheckbox_(m) ==
    IF m.classes[Label] # {} THEN Throw(m, "no-element-left")
    ELSE NestedCall([m EXCEPT !.classes[Label] = LabelClasses],
                    "upgradeElement", Label, MaterialCheckbox)

\* MaterialDataTable.prototype.init, for a table without rows
MaterialDataTableInit(m, element) ==
    IF "mdl-data-table--selectable" \in m.classes[element]
    THEN Then(createCheckbox_(m),
              LAMBDA headerCheckbox :
                  IF headerCheckbox.err # "none" THEN headerCheckbox
                  ELSE [headerCheckbox EXCEPT
                           !.classes[element] = @ \cup {"is-upgraded"}])
    ELSE m

\* the body of a constructor: this.element_ = element; this.init()
ConstructorBody(m, element, classConstructor) ==
    IF m.err # "none" THEN m
    ELSE IF classConstructor = "MaterialDataTable"
    THEN MaterialDataTableInit(m, element)
    ELSE m

\* lines 241-246, with what the constructor calls
MarkAndCreateReentrant(m, element, registeredClass, upgradedList, reaction) ==
    Then(UserCall([m EXCEPT !.attr[element] = Join(upgradedList)],
                  "constructor", registeredClass.classConstructor, element,
                  registeredClass.className, 0),
         LAMBDA called :
    Then(ConstructorBody(called, element, registeredClass.classConstructor),
         LAMBDA inited :
    Then(React(inited, reaction, "constructor", registeredClass.className),
         LAMBDA reacted :
    IF reacted.err # "none" THEN reacted
    ELSE [reacted EXCEPT
             !.created = Append(@, Construct(reacted, element, registeredClass)),
             !.nextInst = @ + 1])))

\* lines 248-250, with what the callbacks call
RECURSIVE RunCallbacksReentrant(_, _, _, _, _)
RunCallbacksReentrant(m, element, registeredClass, j, reaction) ==
    IF j > Len(registeredClass.callbacks) \/ m.err # "none" THEN m
    ELSE Then(UserCall(m, "callback", registeredClass.callbacks[j],
                       element, registeredClass.className, 0),
              LAMBDA called :
         Then(React(called, reaction, "callback", registeredClass.className),
              LAMBDA reacted :
         RunCallbacksReentrant(reacted, element, registeredClass, j + 1,
                               reaction)))

\* lines 252-255: element[registeredClass.className] = instance, where
\* instance is the local variable of the round, whatever createdComponents_
\* holds by now
ExposeInstance(m, element, registeredClass, instance) ==
    IF registeredClass.widget
    THEN [m EXCEPT !.props[element][registeredClass.className] = instance]
    ELSE m

\* lines 239-262, with what the 'mdl-componentupgraded' listener calls
UpgradeRoundReentrant(m, element, registeredClass, upgradedList, reaction) ==
    IF registeredClass.id = 0
    THEN Throw(m, "no-registered-component")
    ELSE Then(MarkAndCreateReentrant(m, element, registeredClass,
                                     upgradedList, reaction),
              LAMBDA created :
         IF created.err # "none" THEN created
         ELSE Then(RunCallbacksReentrant(created, element, registeredClass,
                                         1, reaction),
                   LAMBDA called :
              IF called.err # "none" THEN called
              ELSE Then(Dispatch(ExposeInstance(called, element, registeredClass,
                                                created.nextInst - 1),
                                 "mdl-componentupgraded", element,
                                 registeredClass.className, FALSE),
                        LAMBDA upgraded :
                   React(upgraded, reaction, "event",
                         registeredClass.className))))

\* lines 238-263: classesToUpgrade and upgradedList are the local arrays of
\* the call; what a nested call writes to the attribute is not read again
RECURSIVE UpgradeLoopReentrant(_, _, _, _, _, _)
UpgradeLoopReentrant(m, element, classesToUpgrade, i, upgradedList, reaction) ==
    IF i > Len(classesToUpgrade) \/ m.err # "none" THEN m
    ELSE LET pushed == IF classesToUpgrade[i].id = 0 THEN upgradedList
                       ELSE Append(upgradedList, classesToUpgrade[i].className)
         IN  Then(UpgradeRoundReentrant(m, element, classesToUpgrade[i], pushed,
                                        reaction),
                  LAMBDA round :
                      UpgradeLoopReentrant(round, element, classesToUpgrade,
                                           i + 1, pushed, reaction))

\* upgradeElementInternal(element, optJsClass) on a page whose code calls
\* componentHandler
upgradeElementInternalReentrant(m, element, optJsClass, reaction) ==
    IF element \notin Elements THEN Throw(m, "invalid-argument")
    ELSE Then(Dispatch(m, "mdl-componentupgrading", element, Undefined, FALSE),
              LAMBDA upgrading :
                  UpgradeLoopReentrant(upgrading, element,
                      ClassesToUpgrade(upgrading.attr[element], element,
                                       optJsClass),
                      1, getUpgradedListOfElement_(upgrading.attr[element]),
                      reaction))

\* componentHandler.upgradeElement(element, optJsClass) on such a page
UpgradeElementReentrant(element, optJsClass, reaction) ==
    /\ calls < MaxCalls
    /\ \E m \in {upgradeElementInternalReentrant(MachineReentrant, element,
                                                 optJsClass, reaction)} :
        /\ m.err # "no-element-left"
        /\ reaction.kind # "none" => m.reacted
        /\ calls' = calls + 1
        /\ createdComponents_' = m.created
        /\ dataUpgraded' = m.attr
        /\ expando' = m.props
        /\ nextInstance' = m.nextInst
        /\ trace' = m.trace
        /\ classList' = m.classes
        /\ UNCHANGED <<registeredComponents_, nextConfig>>
        /\ last' = [NoCall EXCEPT !.op = "upgradeElement", !.nodes = <<element>>,
                       !.type = optJsClass, !.outcome = Outcome(m)]

\* the registrations of the page: Widget and Tabs, and the two components of
\* this repository (lines 969-974 and 4214-4218)
ConfigsReentrant ==
    {ConfigPublic("CtorA", Widget, "w-js", TRUE, FALSE),
     ConfigPublic("CtorB", Tabs, "t-js", FALSE, TRUE),
     ConfigPublic("MaterialCheckbox", MaterialCheckbox, "mdl-js-checkbox",
                  FALSE, TRUE),
     ConfigPublic("MaterialDataTable", MaterialDataTable, "mdl-js-data-table",
                  TRUE, FALSE)}

InitReentrant ==
    /\ registeredComponents_ = <<>>
    /\ createdComponents_ = <<>>
    /\ classList \in DocumentsReentrant
    /\ dataUpgraded = [e \in Elements |-> Null]
    /\ expando = [e \in Elements |-> [t \in AllTypeNames |-> 0]]
    /\ nextConfig = 1
    /\ nextInstance = 1
    /\ calls = 0
    /\ last = NoCall
    /\ trace = <<>>

NextReentrant ==
    \/ \E config \in ConfigsReentrant : Register(config)
    \/ RegisterUpgradedCallback(Widget, "cb1")
    \/ \E element \in Existing(classList), optJsClass \in {Undefined, Widget} :
           \E reaction \in Reactions(element) :
               UpgradeElementReentrant(element, optJsClass, reaction)
    \/ \E node \in Existing(classList) : DowngradeElements(<<node>>, FALSE)

\* the registry on a page whose constructors, callbacks and listeners call
\* componentHandler
SpecReentrant == InitReentrant /\ [][NextReentrant]_vars

\* ------------------------------------------ downgrade from inside a downgrade
\* what the 'mdl-componentdowngraded' listener of the page does: nothing, or
\* at the event of an instance of class type it calls
\* componentHandler.downgradeElements(node) for the node of the event, once
ReactionsDowngrade(node) ==
    {NoReaction}
    \cup {[kind |-> "downgraded", type |-> type, op |-> "downgradeElements",
           el |-> node] : type \in TypeNames}

\* deconstructComponentInternal(component), with what the listener of the
\* event of line 378 calls
deconstructComponentInternalReentrant(m, component, reaction) ==
    Then(deconstructComponentInternal(m, component),
         LAMBDA dispatched :
             React(dispatched, reaction, "downgraded",
                   component.mdlComponentConfigInternal_.className))

\* lines 392-394: components is the array filter() made before the first
\* component was deconstructed; forEach goes through it to its end
RECURSIVE DeconstructEachReentrant(_, _, _, _)
DeconstructEachReentrant(m, components, k, reaction) ==
    IF k > Len(components) \/ m.err # "none" THEN m
    ELSE Then(deconstructComponentInternalReentrant(m, components[k], reaction),
              LAMBDA deconstructed :
                  DeconstructEachReentrant(deconstructed, components, k + 1,
                                           reaction))

\* downgradeNode(node) on a page whose listener calls componentHandler
downgradeNodeReentrant(m, node, reaction) ==
    DeconstructEachReentrant(
        m, SelectSeq(m.created, LAMBDA item : item.element_ = node), 1, reaction)

\* componentHandler.downgradeElements(node) on such a page
DowngradeElementsReentrant(node, reaction) ==
    /\ calls < MaxCalls
    /\ \E m \in {downgradeNodeReentrant(MachineReentrant, node, reaction)} :
        /\ reaction.kind # "none" => m.reacted
        /\ calls' = calls + 1
        /\ createdComponents_' = m.created
        /\ dataUpgraded' = m.attr
        /\ expando' = m.props
        /\ nextInstance' = m.nextInst
        /\ trace' = m.trace
        /\ UNCHANGED <<registeredComponents_, classList, nextConfig>>
        /\ last' = [NoCall EXCEPT !.op = "downgradeElements", !.nodes = <<node>>,
                       !.outcome = Outcome(m)]

NextDowngradeReentrant ==
    \/ \E config \in ConfigsPublic : Register(config)
    \/ UpgradeDom(Undefined, UndefinedCss, {}, 0)
    \/ \E element \in Elements : UpgradeElement(element, Undefined, {}, 0)
    \/ \E node \in Elements :
           \E reaction \in ReactionsDowngrade(node) :
               DowngradeElementsReentrant(node, reaction)

\* the registry on a page whose 'mdl-componentdowngraded' listener calls
\* downgradeElements
SpecDowngradeReentrant == Init /\ [][NextDowngradeReentrant]_vars

\* ---------------------------------------------------------------- reading
\* the upgraded-type list of an element, as the registry reads it
UpgradedListOf(e) == getUpgradedListOfElement_(dataUpgraded[e])
\* how often x occurs in a list
Occurrences(list, x) == Cardinality({i \in 1..Len(list) : list[i] = x})
\* the ids of the instances of created that belong to element e and class T
InstancesOf(created, e, T) ==
    {created[i].id : i \in {j \in 1..Len(created) :
        /\ created[j].element_ = e
        /\ created[j].mdlComponentConfigInternal_.className = T}}
\* the ids of the instances of created that belong to element e
OwnedBy(created, e) ==
    {created[i].id : i \in {j \in 1..Len(created) : created[j].element_ = e}}
\* the entries of a trace that construct, notify or announce an upgrade of
\* element e to class T
UpgradeEntries(tr, e, T) ==
    {k \in 1..Len(tr) :
        /\ tr[k].el = e
        /\ tr[k].type = T
        /\ \/ tr[k].kind \in {"constructor", "callback"}
           \/ tr[k].name = "mdl-componentupgraded"}
UpgradeOps == {"upgradeElement", "upgradeDom", "upgradeAllRegistered", "upgradeElements"}
\* the last call was upgradeElement(e, T)
WasUpgradeElement(call, e, T) ==
    call.op = "upgradeElement" /\ call.nodes = <<e>> /\ call.type = T
\* the last call was downgradeElements(n) with the node n itself
WasDowngradeNode(call, n) ==
    call.op = "downgradeElements" /\ ~call.isArray /\ call.nodes = <<n>>

\* ------------------------------------------------------------------ claims
\* C1 (state part): every element has, for every class name, at most one
\* live instance, and the class name at most once in its upgraded-type list.
C1_AtMostOne ==
    \A e \in Elements, T \in TypeNames :
        /\ Cardinality(InstancesOf(createdComponents_, e, T)) <= 1
        /\ Occurrences(UpgradedListOf(e), T) <= 1

\* C1 (step part): an upgrade call of any kind leaves alone every element
\* that is already upgraded for T, as far as T goes: no instance of T for it
\* appears or disappears, T keeps its place in the list, no constructor or
\* callback of T is called with it and no 'upgraded' event of T is sent; and
\* upgradeElement(e, T) itself changes nothing at all.
C1_SecondUpgradeStep ==
    last'.op \in UpgradeOps =>
        \A e \in Elements, T \in TypeNames :
            isElementUpgraded_(dataUpgraded[e], T) =>
                /\ InstancesOf(createdComponents_', e, T)
                       = InstancesOf(createdComponents_, e, T)
                /\ Occurrences(getUpgradedListOfElement_(dataUpgraded'[e]), T) = 1
                /\ UpgradeEntries(trace', e, T) = {}
                /\ WasUpgradeElement(last', e, T) =>
                       /\ UNCHANGED <<dataUpgraded, createdComponents_, expando,
                                      registeredComponents_>>
                       /\ \A k \in 1..Len(trace') :
                              trace'[k].name = "mdl-componentupgrading"

\* C1: at most one live instance and one list entry per element and class,
\* and a second upgrade of an upgraded element for the same class (by
\* upgradeElement or by a bulk upgrade, also after the class was registered
\* again) creates no instance, changes no attribute, invokes no callback.
C1_UpgradeIsIdempotent == []C1_AtMostOne /\ [][C1_SecondUpgradeStep]_vars

\* C1 witness: upgradeElement(e, T) returned on an element that has a live
\* instance of T, which an earlier call created, and did nothing but send
\* the 'mdl-componentupgrading' event.
C1_Witness ==
    \E e \in Elements, T \in TypeNames :
        /\ WasUpgradeElement(last, e, T)
        /\ last.outcome = Returned
        /\ Len(trace) = 1 /\ ~trace[1].cancelled
        /\ InstancesOf(createdComponents_, e, T) # {}
        /\ FindIndex(T) # 0

\* C2: upgradeElement(e, T) that is not cancelled and returns, for a
\* registered T that e's upgraded-type list did not contain, leaves T exactly
\* once in the list and exactly one new instance, of T and for e, at the end
\* of createdComponents_; whether or not e carries T's marker class.
C2_UpgradeForType ==
    \A e \in Elements, T \in TypeNames :
        (/\ WasUpgradeElement(last, e, T)
         /\ last.outcome = Returned
         /\ FindIndex(T) # 0
         /\ ~trace[1].cancelled
         /\ ~isElementUpgraded_(trace[1].attr, T))
        => /\ Occurrences(UpgradedListOf(e), T) = 1
           /\ Len(createdComponents_) = Len(trace[1].created) + 1
           /\ SubSeq(createdComponents_, 1, Len(trace[1].created)) = trace[1].created
           /\ LET instance == createdComponents_[Len(createdComponents_)]
              IN  /\ instance.element_ = e
                  /\ instance.mdlComponentConfigInternal_.className = T
                  /\ \A k \in 1..Len(trace[1].created) :
                         trace[1].created[k].id # instance.id

\* C2 witness: e1, which does not carry the marker class Tabs is registered
\* with, was upgraded for Tabs by upgradeElement("e1", Tabs).
C2_Witness ==
    /\ WasUpgradeElement(last, "e1", Tabs)
    /\ last.outcome = Returned
    /\ FindIndex(Tabs) # 0
    /\ findRegisteredClass_(Tabs).cssClass \notin ClassListOf("e1")
    /\ InstancesOf(createdComponents_, "e1", Tabs) # {}
    /\ ~isElementUpgraded_(trace[1].attr, Tabs)

\* C3 (state part): after downgradeElements(n) no live instance belongs to
\* n, and n's upgraded-type list holds none of the class names of the
\* instances that were torn down.
C3_NothingLeft ==
    \A n \in Elements :
        (WasDowngradeNode(last, n) /\ last.outcome = Returned)
        => /\ OwnedBy(createdComponents_, n) = {}
           /\ \A k \in 1..Len(trace) :
                  trace[k].name = "mdl-componentdowngraded"
                  => ~isElementUpgraded_(dataUpgraded[n], trace[k].type)

\* C3 (step part): downgradeElements(n) right after downgradeElements(n)
\* changes neither createdComponents_ nor an attribute and sends no event.
C3_RepeatedStep ==
    \A n \in Elements :
        (/\ WasDowngradeNode(last, n) /\ last.outcome = Returned
         /\ WasDowngradeNode(last', n))
        => /\ UNCHANGED <<createdComponents_, dataUpgraded>>
           /\ trace' = <<>>
           /\ last'.outcome = Returned

\* C3: downgradeElements(n) removes every live instance of n and the class
\* names of the removed instances from n's list; doing it again is a no-op.
C3_DowngradeRemovesAll == []C3_NothingLeft /\ [][C3_RepeatedStep]_vars

\* C4 (step): an upgradeElement(e, T?) whose 'mdl-componentupgrading' event
\* a listener cancels returns, leaves the attributes, createdComponents_, the
\* properties of the elements and the registry as they were, and its trace
\* is that one event: no constructor, no callback, no 'mdl-componentupgraded'.
C4_CancelledStep ==
    \A e \in Elements :
        (/\ last'.op = "upgradeElement" /\ last'.nodes = <<e>>
         /\ trace' # <<>> /\ trace'[1].cancelled)
        => /\ last'.outcome = Returned
           /\ UNCHANGED <<dataUpgraded, createdComponents_, expando,
                          registeredComponents_>>
           /\ Len(trace') = 1
           /\ trace'[1].name = "mdl-componentupgrading"
           /\ trace'[1].el = e

\* C4: a cancelled upgradeElement returns without error and without effect.
C4_CancelHasNoEffect == [][C4_CancelledStep]_vars

\* C4 witness: upgradeElement(e) was cancelled although a registered
\* component matches e's classList and e is not upgraded to it.
C4_Witness ==
    \E e \in Elements :
        /\ WasUpgradeElement(last, e, Undefined)
        /\ Len(trace) = 1 /\ trace[1].cancelled
        /\ ScanRegistered(dataUpgraded[e], e, 1, <<>>) # <<>>

\* the calls (as steps) upgradeElement(e, T) for a class name T that
\* registeredComponents_ does not hold
C5_Unregistered(e, T) ==
    /\ last'.op = "upgradeElement" /\ last'.nodes = <<e>> /\ last'.type = T
    /\ FindIndex(T) = 0
\* what such a call does: it throws, having changed no attribute and no
\* instance, called no constructor and callback and sent no upgraded event
C5_RaisesUnchanged(e) ==
    /\ last'.outcome = "no-registered-component"
    /\ UNCHANGED <<dataUpgraded, createdComponents_, expando>>
    /\ \A k \in 1..Len(trace') : trace'[k].name = "mdl-componentupgrading"

\* C5 as stated: every upgradeElement(e, T) with T not registered raises
\* and changes nothing.
C5_UnregisteredAlwaysRaises ==
    [][\A e \in Elements, T \in TypeNames :
           C5_Unregistered(e, T) => C5_RaisesUnchanged(e)]_vars

\* C5 amended: every upgradeElement(e, T) with T not registered whose
\* 'mdl-componentupgrading' event is not cancelled raises and changes
\* nothing.
C5_UnregisteredRaises ==
    [][\A e \in Elements, T \in TypeNames :
           (C5_Unregistered(e, T) /\ ~trace'[1].cancelled)
           => C5_RaisesUnchanged(e)]_vars

\* C5 witness: upgradeElement(e, T) threw for want of a registered T, with
\* another class registered and e upgraded to it.
C5_Witness ==
    \E e \in Elements, T \in TypeNames :
        /\ WasUpgradeElement(last, e, T)
        /\ last.outcome = "no-registered-component"
        /\ FindIndex(T) = 0
        /\ registeredComponents_ # <<>>
        /\ OwnedBy(createdComponents_, e) # {}

\* scenario A: register of Widget with CSS class w-js as the first call, then
\* one upgrade of the whole document that returns and that no listener
\* cancels for e1
C6_ScenarioA ==
    /\ calls = 2
    /\ Len(registeredComponents_) = 1
    /\ registeredComponents_[1].className = Widget
    /\ registeredComponents_[1].cssClass = "w-js"
    /\ \/ last.op = "upgradeAllRegistered"
       \/ last.op = "upgradeDom" /\ last.type = Undefined /\ last.css = UndefinedCss
    /\ last.outcome = Returned
    /\ \A k \in 1..Len(trace) : ~trace[k].cancelled

\* C6 as stated: after scenario A the attribute of e1 is "Widget" and one
\* instance belongs to e1.
C6_AttributeIsWidget ==
    C6_ScenarioA
    => /\ dataUpgraded["e1"] = Widget
       /\ Cardinality(OwnedBy(createdComponents_, "e1")) = 1

\* C6 amended: after scenario A the attribute of e1 is ",Widget" (the list
\* read from no attribute starts with the empty string) and one instance
\* belongs to e1.
C6_AttributeIsCommaWidget ==
    C6_ScenarioA
    => /\ dataUpgraded["e1"] = <<",">> \o Widget
       /\ Cardinality(OwnedBy(createdComponents_, "e1")) = 1

\* C6 witness: scenario A has happened and e1 has its instance.
C6_Witness ==
    /\ C6_ScenarioA
    /\ last.op = "upgradeAllRegistered"
    /\ InstancesOf(createdComponents_, "e1", Widget) # {}

\* scenario D, second step: downgradeElements(e) right after an
\* upgradeElement(e, T) that created the instance of T for e returns and
\* leaves e with no instance and without T in its list.
C7_DowngradeStep ==
    \A e \in Elements, T \in TypeNames :
        (/\ WasUpgradeElement(last, e, T) /\ last.outcome = Returned
         /\ InstancesOf(createdComponents_, e, T) # {}
         /\ InstancesOf(trace[1].created, e, T) = {}
         /\ WasDowngradeNode(last', e))
        => /\ last'.outcome = Returned
           /\ OwnedBy(createdComponents_', e) = {}
           /\ ~isElementUpgraded_(dataUpgraded'[e], T)

\* scenario D, third step: upgradeElement(e, T) on an element that a
\* downgrade left with the empty list ends as a first upgrade does: the
\* attribute is ",T" and the one instance of e is new, made when no other
\* instance of e was live.
C7_UpgradedAgain ==
    \A e \in Elements, T \in TypeNames :
        (/\ WasUpgradeElement(last, e, T) /\ last.outcome = Returned
         /\ FindIndex(T) # 0
         /\ ~trace[1].cancelled
         /\ trace[1].attr = <<>>)
        => /\ dataUpgraded[e] = <<",">> \o T
           /\ OwnedBy(trace[1].created, e) = {}
           /\ OwnedBy(createdComponents_, e) = {nextInstance - 1}
           /\ InstancesOf(createdComponents_, e, T) = {nextInstance - 1}
           /\ \A k \in 1..Len(trace[1].created) :
                  trace[1].created[k].id < nextInstance - 1

\* the general clause: in every state that downgradeElements(n) leaves, each
\* element e it tore an instance of T down for can be upgraded for T again:
\* upgradeElement(e, T), not cancelled, makes a new instance of T for e.
C7_CanUpgradeAgain ==
    \A n \in Values :
        (WasDowngradeNode(last, n) /\ last.outcome = Returned)
        => \A k \in 1..Len(trace) :
               trace[k].name = "mdl-componentdowngraded"
               => LET again == upgradeElementInternal(Machine, trace[k].el,
                                                      trace[k].type, {}, 0)
                  IN  /\ again.err = "none"
                      /\ InstancesOf(again.created, trace[k].el, trace[k].type)
                             = {nextInstance}

\* C7: upgrade(e, T); downgradeElements(e); upgrade(e, T) succeeds at every
\* step with two instances that are never live together and ends as a first
\* upgrade does; and after every downgrade the element can be upgraded for T
\* again.
C7_UpgradeDowngradeUpgrade ==
    /\ [](C7_UpgradedAgain /\ C7_CanUpgradeAgain)
    /\ [][C7_DowngradeStep]_vars

\* scenario D has happened: the second instance of e1 is live, the first is
\* not.
C7_ScenarioD ==
    /\ calls = 4
    /\ WasUpgradeElement(last, "e1", Widget)
    /\ last.outcome = Returned
    /\ trace[1].attr = <<>>
    /\ OwnedBy(createdComponents_, "e1") = {2}

\* C8: no two configurations of registeredComponents_ have the same
\* className.
C8_UniqueClassNames ==
    \A i, j \in 1..Len(registeredComponents_) :
        registeredComponents_[i].className = registeredComponents_[j].className
        => i = j

\* C8 witness: four register calls have left two configurations.
C8_Witness ==
    /\ nextConfig = 5
    /\ Len(registeredComponents_) = 2
    /\ last.op = "register"

\* the configuration at index i after the step holds what the argument of
\* the register call gave
C9_HoldsArgument(i) ==
    /\ registeredComponents_'[i].className = last'.config.classAsString
    /\ registeredComponents_'[i].classConstructor = last'.config.constructor
    /\ registeredComponents_'[i].cssClass = last'.config.cssClass
    /\ registeredComponents_'[i].widget =
           (last'.config.widgetMissing \/ last'.config.widget)

\* C9 (step): a register call that returns, for a className found at index
\* i, keeps the length, puts the argument's constructor, CSS class and widget
\* flag at i and keeps every other configuration where it was; for a
\* className not found it appends one configuration holding the argument's.
C9_RegisterStep ==
    (last'.op = "register" /\ last'.outcome = Returned)
    => LET i == FindIndex(last'.config.classAsString)
           n == Len(registeredComponents_)
       IN  IF i # 0
           THEN /\ Len(registeredComponents_') = n
                /\ C9_HoldsArgument(i)
                /\ \A j \in (1..n) \ {i} :
                       registeredComponents_'[j] = registeredComponents_[j]
           ELSE /\ Len(registeredComponents_') = n + 1
                /\ C9_HoldsArgument(n + 1)
                /\ SubSeq(registeredComponents_', 1, n) = registeredComponents_

\* C9: register replaces in place, or appends at the end.
C9_ReplaceInPlace == [][C9_RegisterStep]_vars

\* C9 witness: Widget was registered again, with another constructor and CSS
\* class, while Tabs was registered after it: the new configuration is first.
C9_Witness ==
    /\ last.op = "register" /\ last.outcome = Returned
    /\ last.config.classAsString = Widget
    /\ Len(registeredComponents_) = 2
    /\ registeredComponents_[1].id = 3
    /\ registeredComponents_[1].classConstructor = "CtorB"
    /\ registeredComponents_[2].className = Tabs

\* the callbacks of the configuration registered as T
C10_CallbacksOf(T) == findRegisteredClass_(T).callbacks

\* C10 (whole upgrades): before each 'mdl-componentupgraded' event for
\* element e and class T come the constructor of T, called with e, and then
\* the callbacks of T, each once per subscription and in their order, called
\* with e while createdComponents_ ends with the new instance.
C10_BlockBeforeUpgraded ==
    \A u \in 1..Len(trace) :
        trace[u].name = "mdl-componentupgraded"
        => LET cbs == C10_CallbacksOf(trace[u].type)
               k == u - Len(cbs) - 1
           IN  /\ k >= 1
               /\ trace[k].kind = "constructor"
               /\ trace[k].el = trace[u].el /\ trace[k].type = trace[u].type
               /\ \A j \in 1..Len(cbs) :
                      /\ trace[k + j].kind = "callback"
                      /\ trace[k + j].name = cbs[j]
                      /\ trace[k + j].el = trace[u].el
                      /\ trace[k + j].type = trace[u].type
                      /\ Len(trace[k + j].created) = Len(trace[k].created) + 1
                      /\ LET instance == trace[k + j].created[Len(trace[k + j].created)]
                         IN  /\ instance.element_ = trace[u].el
                             /\ instance.mdlComponentConfigInternal_.className
                                    = trace[u].type

\* C10 (no other call): every call of a callback is one of the calls that
\* follow the constructor of a class the callback is subscribed to, for the
\* same element.
C10_OnlySubscribed ==
    \A c \in 1..Len(trace) :
        trace[c].kind = "callback"
        => \E k \in 1..(c - 1) :
               /\ trace[k].kind = "constructor"
               /\ trace[k].el = trace[c].el /\ trace[k].type = trace[c].type
               /\ c - k <= Len(C10_CallbacksOf(trace[k].type))
               /\ trace[c].name = C10_CallbacksOf(trace[k].type)[c - k]
               /\ \A j \in (k + 1)..c : trace[j].kind = "callback"

\* C10: each upgrade of e for T calls the callbacks of T's configuration
\* with e, once per subscription and in order, after the instance is in
\* createdComponents_ and before 'mdl-componentupgraded'; and no others.
C10_CallbacksInOrder == C10_BlockBeforeUpgraded /\ C10_OnlySubscribed

\* C10 witness: cb2 and then cb1 were subscribed to a class, and an element
\* was upgraded to it.
C10_Witness ==
    \E i \in 1..Len(registeredComponents_) :
        /\ registeredComponents_[i].callbacks = <<"cb2", "cb1">>
        /\ last.op \in UpgradeOps /\ last.outcome = Returned
        /\ \E u \in 1..Len(trace) :
               /\ trace[u].name = "mdl-componentupgraded"
               /\ trace[u].type = registeredComponents_[i].className

\* the entries of a trace that are calls of callbacks
CallbackEntries(tr) == {k \in 1..Len(tr) : tr[k].kind = "callback"}

\* C11 (the call): registerUpgradedCallback(T, cb) with no configuration
\* named T returns and leaves the registry, with every callbacks list, the
\* instances and the elements as they were.
C11_IgnoredStep ==
    (last'.op = "registerUpgradedCallback" /\ FindIndex(last'.type) = 0)
    => /\ last'.outcome = Returned
       /\ UNCHANGED <<registeredComponents_, createdComponents_, dataUpgraded,
                      expando, nextConfig, nextInstance>>

\* C11 (afterwards): when T is registered right after such a call, its
\* configuration has no callback, and upgradeElement(e, T) in the state
\* reached calls none.
C11_RegisteredAfterStep ==
    (/\ last.op = "registerUpgradedCallback" /\ FindIndex(last.type) = 0
     /\ last'.op = "register" /\ last'.type = last.type
     /\ last'.outcome = Returned)
    => /\ (findRegisteredClass_(last.type).id # 0)'
       /\ (findRegisteredClass_(last.type).callbacks = <<>>)'

\* C11 (upgrades): in every state, upgradeElement(e, T) calls the callbacks
\* that the configuration of T holds and no other; none when the
\* configuration holds none.
C11_OnlyHeldCallbacks ==
    \A e \in Elements, T \in TypeNames :
        LET up == upgradeElementInternal(Machine, e, T, {}, 0)
            called == SelectSeq(up.trace, LAMBDA x : x.kind = "callback")
        IN  /\ Len(called) \in {0, Len(findRegisteredClass_(T).callbacks)}
            /\ \A k \in 1..Len(called) :
                   called[k].name = findRegisteredClass_(T).callbacks[k]

\* C11: registerUpgradedCallback for a class name that is not registered is
\* ignored without error, and the callback is not remembered.
C11_UnknownClassIgnored ==
    /\ []C11_OnlyHeldCallbacks
    /\ [][C11_IgnoredStep /\ C11_RegisteredAfterStep]_vars

\* C11 witness: a callback was subscribed to Tabs, which is not registered,
\* while Widget is registered and has a callback.
C11_Witness ==
    /\ last.op = "registerUpgradedCallback" /\ last.type = Tabs
    /\ last.callback = "cb2"
    /\ FindIndex(Tabs) = 0
    /\ Len(registeredComponents_) = 1
    /\ registeredComponents_[1].callbacks = <<"cb1">>

\* C12 (the call): in the state a register call that returned leaves, the
\* configuration of that name is the new one and has no callback, whether it
\* replaced one or was appended, and upgradeElement(e, T) calls no callback.
C12_AfterRegister ==
    (last.op = "register" /\ last.outcome = Returned)
    => /\ findRegisteredClass_(last.type).id = nextConfig - 1
       /\ findRegisteredClass_(last.type).callbacks = <<>>
       /\ \A e \in Elements :
              LET up == upgradeElementInternal(Machine, e, last.type, {}, 0)
              IN  CallbackEntries(up.trace) = {}

\* C12 (later): a configuration object gets callbacks only by
\* registerUpgradedCallback for its name, one at the end per call; a
\* configuration object that is new in the registry has none.
C12_CallbacksStep ==
    /\ Len(registeredComponents_') >= Len(registeredComponents_)
    /\ \A i \in 1..Len(registeredComponents_') :
           LET new == registeredComponents_'[i]
           IN  IF i <= Len(registeredComponents_)
                  /\ registeredComponents_[i].id = new.id
               THEN \/ new.callbacks = registeredComponents_[i].callbacks
                    \/ /\ last'.op = "registerUpgradedCallback"
                       /\ last'.type = new.className
                       /\ new.callbacks =
                              Append(registeredComponents_[i].callbacks,
                                     last'.callback)
               ELSE /\ last'.op = "register"
                    /\ new.callbacks = <<>>

\* C12: registering a class name again discards the callbacks subscribed to
\* it, so upgrades after it call none of them; every configuration starts
\* with no callback.
C12_ReRegisterDropsCallbacks ==
    []C12_AfterRegister /\ [][C12_CallbacksStep]_vars

\* C12 witness: Widget was registered twice, and an element was then
\* upgraded to Widget without a callback being called.
C12_Witness ==
    /\ calls = 4
    /\ nextConfig = 3
    /\ Len(registeredComponents_) = 1
    /\ registeredComponents_[1].id = 2
    /\ registeredComponents_[1].callbacks = <<>>
    /\ WasUpgradeElement(last, "e1", Widget) /\ last.outcome = Returned
    /\ InstancesOf(createdComponents_, "e1", Widget) = {1}
    /\ CallbackEntries(trace) = {}

\* C13 (step): register of a constructor whose prototype has the property
\* mdlComponentConfigInternal_ throws and leaves registeredComponents_ as it
\* was, a configuration of the same name and its callbacks included.
C13_ReservedStep ==
    (last'.op = "register" /\ HasReservedProperty(last'.config.constructor))
    => /\ last'.outcome = "reserved-property"
       /\ UNCHANGED <<registeredComponents_, createdComponents_, dataUpgraded,
                      expando>>

\* C13: register rejects a constructor with the reserved property and
\* changes nothing.
C13_ReservedPropertyRejected == [][C13_ReservedStep]_vars

\* C13 witness: register of Widget with such a constructor threw while
\* Widget was registered and had a callback.
C13_Witness ==
    /\ last.op = "register" /\ last.outcome = "reserved-property"
    /\ last.config.classAsString = Widget
    /\ Len(registeredComponents_) = 1
    /\ registeredComponents_[1].className = Widget
    /\ registeredComponents_[1].classConstructor = "CtorA"
    /\ registeredComponents_[1].callbacks = <<"cb1">>

\* C14 (step): upgradeElement with a value that is no element throws the
\* invalid-argument error; no event is dispatched, and the registry, the
\* instances and the elements stay as they were.
C14_NotAnElementStep ==
    (last'.op = "upgradeElement" /\ last'.nodes[1] \notin Elements)
    => /\ last'.outcome = "invalid-argument"
       /\ trace' = <<>>
       /\ UNCHANGED <<registeredComponents_, createdComponents_, dataUpgraded,
                      expando, nextInstance>>

\* C14: upgradeElement fails fast on a value that is no element.
C14_InvalidArgumentFirst == [][C14_NotAnElementStep]_vars

\* C14 witness: upgradeElement threw for a value that is no element, with a
\* class registered and an element upgraded.
C14_Witness ==
    /\ last.op = "upgradeElement" /\ last.nodes = <<NotANode>>
    /\ last.outcome = "invalid-argument"
    /\ registeredComponents_ # <<>>
    /\ createdComponents_ # <<>>

\* C15 (step): downgradeElements with one value that is neither a node nor
\* an array throws the invalid-argument error and changes nothing; with a
\* node, or an array, of which no node owns an instance it returns, sends no
\* event and changes nothing.
C15_DowngradeStep ==
    (last'.op = "downgradeElements")
    => /\ (~last'.isArray /\ last'.nodes[1] \notin Elements)
          => /\ last'.outcome = "invalid-argument"
             /\ trace' = <<>>
             /\ UNCHANGED <<registeredComponents_, createdComponents_,
                            dataUpgraded, expando>>
       /\ (/\ last'.isArray \/ last'.nodes[1] \in Elements
           /\ \A k \in 1..Len(last'.nodes) :
                  last'.nodes[k] \in Elements
                  => OwnedBy(createdComponents_, last'.nodes[k]) = {})
          => /\ last'.outcome = Returned
             /\ trace' = <<>>
             /\ UNCHANGED <<registeredComponents_, createdComponents_,
                            dataUpgraded, expando>>

\* C15: downgradeElements rejects what is no node, array or collection, and
\* is a no-op on nodes without instances.
C15_DowngradeArguments == [][C15_DowngradeStep]_vars

\* C15 witness: downgradeElements threw for a value that is no node while
\* an element had an instance.
C15_Witness ==
    /\ last.op = "downgradeElements" /\ ~last.isArray
    /\ last.nodes = <<NotANode>>
    /\ last.outcome = "invalid-argument"
    /\ createdComponents_ # <<>>

\* C16: in every state, and whatever the listeners, constructors and
\* callbacks do, upgradeDom() and upgradeAllRegistered() end alike, leave the
\* same attributes and the same createdComponents_, and make the same
\* constructor calls, callback calls and events in the same order.
C16_SameAsUpgradeAllRegistered ==
    \A env \in BulkEnvironments :
        LET dom == upgradeDomInternal(Machine, Undefined, UndefinedCss,
                                      env.cancelled, env.failAt)
            all == upgradeAllRegisteredInternal(Machine, 1, env.cancelled,
                                                env.failAt)
        IN  /\ dom.err = all.err
            /\ dom.attr = all.attr
            /\ dom.created = all.created
            /\ dom.trace = all.trace

\* C17 (step): upgradeDom(T) for a class name T that is not registered, and
\* no CSS class, returns, reaches no element (no event is dispatched on any)
\* and changes no attribute and no instance.
C17_UnregisteredStep ==
    \A T \in TypeNames :
        (/\ last'.op = "upgradeDom" /\ last'.type = T
         /\ last'.css = UndefinedCss
         /\ FindIndex(T) = 0)
        => /\ last'.outcome = Returned
           /\ trace' = <<>>
           /\ UNCHANGED <<dataUpgraded, createdComponents_, expando>>

\* C17: upgradeDom(T) with T unregistered matches no element and does not
\* fail, on every page.
C17_UnregisteredMatchesNothing == [][C17_UnregisteredStep]_vars

\* the configurations upgradeElement(e) is to apply when the attribute of e
\* is attr: those whose CSS class e carries and whose className the list
\* read from attr does not hold, in the order of registeredComponents_
C18_Wanted(e, attr) ==
    SelectSeq(registeredComponents_,
              LAMBDA c : /\ c.cssClass \in ClassListOf(e)
                         /\ \A i \in 1..Len(getUpgradedListOfElement_(attr)) :
                                getUpgradedListOfElement_(attr)[i] # c.className)

\* what C18 says of the call that has just returned: it has called the
\* constructors of exactly the wanted configurations, each once, with e and
\* in registration order, has appended their instances in that order and
\* their names to the list of e, and has touched nothing else.
C18_Applied(e) ==
           LET wanted == C18_Wanted(e, trace[1].attr)
               before == trace[1].created
               constructed == SelectSeq(trace, LAMBDA x : x.kind = "constructor")
           IN  /\ Len(constructed) = Len(wanted)
               /\ Len(createdComponents_) = Len(before) + Len(wanted)
               /\ SubSeq(createdComponents_, 1, Len(before)) = before
               /\ \A k \in 1..Len(wanted) :
                      /\ constructed[k].el = e
                      /\ constructed[k].type = wanted[k].className
                      /\ constructed[k].name = wanted[k].classConstructor
                      /\ createdComponents_[Len(before) + k].element_ = e
                      /\ createdComponents_[Len(before) + k]
                             .mdlComponentConfigInternal_ = ConfigRef(wanted[k])
               /\ UpgradedListOf(e) =
                      getUpgradedListOfElement_(trace[1].attr)
                          \o [k \in 1..Len(wanted) |-> wanted[k].className]
               /\ \A other \in Elements \ {e} :
                      /\ \A k \in 1..Len(trace) : trace[k].el # other
                      /\ OwnedBy(createdComponents_, other)
                             = OwnedBy(before, other)

\* C18 as stated: every upgradeElement(e) without class name that returns
\* has applied exactly the wanted configurations.
C18_AlwaysUpgradesMatchingClasses ==
    \A e \in Elements :
        (WasUpgradeElement(last, e, Undefined) /\ last.outcome = Returned)
        => C18_Applied(e)

\* C18 amended: every upgradeElement(e) without class name that returns and
\* whose 'mdl-componentupgrading' event no listener cancelled has applied
\* exactly the wanted configurations.
C18_UpgradesMatchingClasses ==
    \A e \in Elements :
        (/\ WasUpgradeElement(last, e, Undefined)
         /\ last.outcome = Returned
         /\ ~trace[1].cancelled)
        => C18_Applied(e)

\* C18 witness: Widget and Tabs are registered with the CSS class t-js, in
\* this order, and upgradeElement(e2) has applied both to e2.
C18_Witness ==
    /\ WasUpgradeElement(last, "e2", Undefined) /\ last.outcome = Returned
    /\ Len(registeredComponents_) = 2
    /\ registeredComponents_[1].cssClass = "t-js"
    /\ registeredComponents_[2].cssClass = "t-js"
    /\ dataUpgraded["e2"] = <<",">> \o Widget \o <<",">> \o Tabs
    /\ Cardinality(OwnedBy(createdComponents_, "e2")) = 2

\* the elements of the subtrees of the given values in pre-order: each
\* element, then the elements of its subtree in document order; a value that
\* is no element contributes nothing
RECURSIVE C19_PreOrder(_)
C19_PreOrder(values) ==
    IF values = <<>> THEN <<>>
    ELSE (IF Head(values) \in Elements
          THEN <<Head(values)>> \o C19_PreOrder(ChildrenOf(Head(values)))
          ELSE <<>>)
         \o C19_PreOrder(Tail(values))

\* the order of a traversal: in the trace of an upgradeElements call that
\* returned, the 'mdl-componentupgrading' events are those of the given
\* subtrees in pre-order, and what follows each event up to the next one is
\* the upgrade of that event's element.
C19_VisitedInPreOrder ==
    LET upgrading == SelectSeq(trace, LAMBDA x : x.name = "mdl-componentupgrading")
    IN  /\ [k \in 1..Len(upgrading) |-> upgrading[k].el] = C19_PreOrder(last.nodes)
        /\ trace # <<>> => trace[1].name = "mdl-componentupgrading"
        /\ \A k \in 2..Len(trace) :
               trace[k].name # "mdl-componentupgrading"
               => trace[k].el = trace[k - 1].el

\* the state after a traversal: element v holds the className of every
\* registered configuration whose CSS class it carries
C19_FullyUpgraded(v) ==
    \A i \in 1..Len(registeredComponents_) :
        registeredComponents_[i].cssClass \in ClassListOf(v)
        => isElementUpgraded_(dataUpgraded[v], registeredComponents_[i].className)

\* C19 as stated: upgradeElements visits the given subtrees in pre-order,
\* skipping what is no element, and leaves every element of them upgraded
\* for every registered class whose CSS class it carries.
C19_AlwaysUpgradesSubtrees ==
    (last.op = "upgradeElements" /\ last.outcome = Returned)
    => /\ C19_VisitedInPreOrder
       /\ \A k \in 1..Len(C19_PreOrder(last.nodes)) :
              C19_FullyUpgraded(C19_PreOrder(last.nodes)[k])

\* C19 amended: the same, for the elements whose 'mdl-componentupgrading'
\* event no listener cancelled.
C19_UpgradesSubtrees ==
    (last.op = "upgradeElements" /\ last.outcome = Returned)
    => /\ C19_VisitedInPreOrder
       /\ \A k \in 1..Len(trace) :
              (trace[k].name = "mdl-componentupgrading" /\ ~trace[k].cancelled)
              => C19_FullyUpgraded(trace[k].el)

\* C19 witness: upgradeElements(e1) has upgraded e1 and then its child e2,
\* each to a registered class.
C19_Witness ==
    /\ last.op = "upgradeElements" /\ last.nodes = <<"e1">> /\ ~last.isArray
    /\ last.outcome = Returned
    /\ OwnedBy(createdComponents_, "e1") # {}
    /\ OwnedBy(createdComponents_, "e2") # {}
    /\ trace[1].el = "e1"
    /\ trace[Len(trace)].el = "e2"
    /\ trace[Len(trace)].name = "mdl-componentupgraded"

\* C20 (start): an upgradeElement call on an element dispatches
\* 'mdl-componentupgrading' first and once, with the attribute, the
\* properties and createdComponents_ still as they were before the call.
C20_UpgradingFirstStep ==
    \A e \in Elements :
        (last'.op = "upgradeElement" /\ last'.nodes = <<e>>)
        => /\ trace' # <<>>
           /\ trace'[1].name = "mdl-componentupgrading"
           /\ trace'[1].el = e
           /\ trace'[1].attr = dataUpgraded[e]
           /\ trace'[1].props = expando[e]
           /\ trace'[1].created = createdComponents_
           /\ \A k \in 2..Len(trace') : trace'[k].name # "mdl-componentupgrading"

\* the k-th entry of the trace is the constructor call of a round: the
\* round before is complete (its 'mdl-componentupgraded' event is the entry
\* before), the class name is already written to the attribute and the
\* instance is not yet in createdComponents_
C20_ConstructorEntry(k) ==
    /\ k >= 2
    /\ trace[k - 1].kind = "event"
    /\ trace[k].attr =
           Join(Append(getUpgradedListOfElement_(trace[k - 1].attr), trace[k].type))
    /\ trace[k].created = trace[k - 1].created
    /\ trace[k].props = trace[k - 1].props

\* the k-th entry is a callback call: it follows the constructor call or a
\* callback call of the same round, and the instance is the last of
\* createdComponents_, with its reference to the configuration
C20_CallbackEntry(k) ==
    /\ k >= 2
    /\ trace[k - 1].kind \in {"constructor", "callback"}
    /\ trace[k - 1].type = trace[k].type
    /\ trace[k].attr = trace[k - 1].attr
    /\ trace[k].props = trace[k - 1].props
    /\ LET before == IF trace[k - 1].kind = "constructor"
                     THEN Len(trace[k - 1].created) + 1
                     ELSE Len(trace[k - 1].created)
       IN  /\ Len(trace[k].created) = before
           /\ trace[k].created[before].element_ = trace[k].el
           /\ trace[k].created[before].mdlComponentConfigInternal_
                  = ConfigRef(findRegisteredClass_(trace[k].type))

\* the k-th entry is the 'mdl-componentupgraded' event of a round: it ends
\* the round of the same class; the instance is in createdComponents_ and,
\* for a widget, a property of the element
C20_UpgradedEntry(k) ==
    /\ k >= 2
    /\ trace[k - 1].kind \in {"constructor", "callback"}
    /\ trace[k - 1].type = trace[k].type
    /\ trace[k].attr = trace[k - 1].attr
    /\ LET n == Len(trace[k].created)
           c == findRegisteredClass_(trace[k].type)
       IN  /\ n = IF trace[k - 1].kind = "constructor"
                  THEN Len(trace[k - 1].created) + 1
                  ELSE Len(trace[k - 1].created)
           /\ trace[k].created[n].element_ = trace[k].el
           /\ trace[k].created[n].mdlComponentConfigInternal_ = ConfigRef(c)
           /\ trace[k].props =
                  IF c.widget
                  THEN [trace[k - 1].props EXCEPT ![trace[k].type] =
                            trace[k].created[n].id]
                  ELSE trace[k - 1].props

\* C20 (rounds): the trace of an upgradeElement call is the upgrading event
\* and then whole rounds, one after the other: attribute write, constructor
\* call, append with the reference, callbacks, property, one upgraded event;
\* a call that returns ends after a whole round, in the state of its last
\* entry.
C20_RoundsInTurn ==
    \A e \in Elements :
        (last.op = "upgradeElement" /\ last.nodes = <<e>>)
        => /\ \A k \in 2..Len(trace) :
                  /\ trace[k].el = e
                  /\ trace[k].kind = "constructor" => C20_ConstructorEntry(k)
                  /\ trace[k].kind = "callback" => C20_CallbackEntry(k)
                  /\ trace[k].kind = "event" => C20_UpgradedEntry(k)
           /\ last.outcome = Returned
              => /\ trace[Len(trace)].kind = "event"
                 /\ trace[Len(trace)].attr = dataUpgraded[e]
                 /\ trace[Len(trace)].created = createdComponents_
                 /\ trace[Len(trace)].props = expando[e]

\* C20: within one upgradeElement call the steps are in order, round by
\* round.
C20_StepsInOrder == []C20_RoundsInTurn /\ [][C20_UpgradingFirstStep]_vars

\* C20 witness: upgradeElement(e2) went through two rounds, the first for a
\* widget with a callback.
C20_Witness ==
    /\ WasUpgradeElement(last, "e2", Undefined) /\ last.outcome = Returned
    /\ Len(trace) = 6
    /\ trace[2].kind = "constructor"
    /\ trace[3].kind = "callback"
    /\ trace[4].name = "mdl-componentupgraded"
    /\ trace[4].props # trace[3].props
    /\ trace[5].kind = "constructor"
    /\ trace[6].name = "mdl-componentupgraded"

\* the class names a list holds, the empty string of the ',name,name' style
\* left out
NamesIn(list) == {list[i] : i \in {j \in 1..Len(list) : list[j] # <<>>}}
\* the class names of the instances of created that belong to element e
TypesOwnedBy(created, e) ==
    {created[i].mdlComponentConfigInternal_.className :
         i \in {j \in 1..Len(created) : created[j].element_ = e}}

\* C21: in the trace of a downgradeElements call, at each
\* 'mdl-componentdowngraded' event the instance of that class is out of
\* createdComponents_, its class name is out of the element's list, and the
\* list names exactly the classes of the instances the element still has.
C21_TeardownRemovesOwnName ==
    (last.op = "downgradeElements")
    => \A k \in 1..Len(trace) :
           trace[k].name = "mdl-componentdowngraded"
           => /\ trace[k].type \notin TypesOwnedBy(trace[k].created, trace[k].el)
              /\ ~isElementUpgraded_(trace[k].attr, trace[k].type)
              /\ NamesIn(getUpgradedListOfElement_(trace[k].attr))
                     = TypesOwnedBy(trace[k].created, trace[k].el)

\* C22: no call of componentHandler begins while a handler runs.  Stated for
\* the constructors of this repository and for the handlers that return: in
\* the trace of such a handler no call begins inside the constructor
\* MaterialDataTable.
C22_NoCallInsideConstructor ==
    (last.outcome = Returned)
    => \A k \in 1..Len(trace) :
           trace[k].kind = "begin"
           => \A j \in 1..(k - 1) :
                  ~(/\ trace[j].kind = "constructor"
                    /\ trace[j].name = "MaterialDataTable"
                    /\ \A i \in (j + 1)..(k - 1) : trace[i].kind # "end")

\* C23: after a call upgradeElement(e) that returns, whatever the
\* constructor, a callback or the 'mdl-componentupgraded' listener of an
\* earlier class of the call has called for e, the element e has at most one
\* live instance per class, each class name at most once in its list, and
\* the list names exactly the classes of its live instances.
C23_NoTypeTwice ==
    (last.op = "upgradeElement" /\ last.outcome = Returned)
    => LET e == last.nodes[1]
       IN  /\ \A T \in AllTypeNames :
                  /\ Cardinality(InstancesOf(createdComponents_, e, T)) <= 1
                  /\ Occurrences(UpgradedListOf(e), T) <= 1
           /\ NamesIn(UpgradedListOf(e)) = TypesOwnedBy(createdComponents_, e)

\* the last 'constructor' entry of a trace before the k-th entry (0: none)
ConstructorBefore(tr, k) ==
    LET before == {j \in 1..(k - 1) : tr[j].kind = "constructor"}
    IN  IF before = {} THEN 0 ELSE CHOOSE j \in before : \A i \in before : i <= j

\* C24 (registration): register stores the widget flag true for a
\* configuration without the flag, and the flag given otherwise.
C24_FlagStored ==
    (last.op = "register" /\ last.outcome = Returned)
    => findRegisteredClass_(last.config.classAsString).widget
           = (IF last.config.widgetMissing THEN TRUE ELSE last.config.widget)

\* C24 (upgrade): at every 'mdl-componentupgraded' event for e and T the
\* new instance is the last of createdComponents_, appended to what the
\* constructor found there, it belongs to e and refers to T's configuration,
\* and e's property T is the new instance exactly if the configuration's
\* widget flag is true.
C24_AttachedIffFlag ==
    (last.op \in UpgradeOps)
    => \A k \in 1..Len(trace) :
           trace[k].name = "mdl-componentupgraded"
           => LET entry == trace[k]
                  registeredClass == findRegisteredClass_(entry.type)
                  instance == entry.created[Len(entry.created)]
                  j == ConstructorBefore(trace, k)
              IN  /\ j # 0
                  /\ trace[j].el = entry.el /\ trace[j].type = entry.type
                  /\ instance.id \notin OwnedBy(trace[j].created, entry.el)
                  /\ entry.created = Append(trace[j].created, instance)
                  /\ instance.element_ = entry.el
                  /\ instance.mdlComponentConfigInternal_ = ConfigRef(registeredClass)
                  /\ (entry.props[entry.type] = instance.id) <=> registeredClass.widget

\* C24: the widget flag defaults to true and decides whether an upgrade
\* attaches the new instance to the element; the instance is appended to
\* createdComponents_ with its configuration either way.
C24_ExposeFlag == C24_FlagStored /\ C24_AttachedIffFlag

\* upgradeElement(e2) has upgraded e2 to Widget, registered with the widget
\* flag false, and to Tabs, registered with the flag true: e2 has the
\* property Tabs and not the property Widget, and two live instances
C24_Witness ==
    /\ WasUpgradeElement(last, "e2", Undefined)
    /\ last.outcome = Returned
    /\ ~findRegisteredClass_(Widget).widget
    /\ findRegisteredClass_(Tabs).widget
    /\ Len(createdComponents_) = 2
    /\ expando["e2"][Widget] = 0
    /\ expando["e2"][Tabs] = createdComponents_[2].id
    /\ createdComponents_[2].mdlComponentConfigInternal_
           = ConfigRef(findRegisteredClass_(Tabs))
    /\ createdComponents_[1].mdlComponentConfigInternal_
           = ConfigRef(findRegisteredClass_(Widget))

\* the registered configurations whose CSS class element e carries
MatchingConfigs(e) ==
    {k \in 1..Len(registeredComponents_) :
        registeredComponents_[k].cssClass \in ClassListOf(e)}

\* C25: an element without the attribute, or with the empty attribute,
\* counts as upgraded to no class name a configuration is registered under,
\* the empty string included, and a call upgradeElement(e) that returns
\* leaves it with an instance of every registered configuration whose CSS
\* class it carries.
C25_SentinelIsNoClass ==
    \A e \in Elements :
        dataUpgraded[e] \in {Null, <<>>}
        => /\ \A k \in 1..Len(registeredComponents_) :
                  ~isElementUpgraded_(dataUpgraded[e],
                                      registeredComponents_[k].className)
           /\ LET up == upgradeElementInternal(Machine, e, Undefined, {}, 0)
              IN  \A k \in MatchingConfigs(e) :
                      \E i \in 1..Len(up.created) :
                          /\ up.created[i].element_ = e
                          /\ up.created[i].mdlComponentConfigInternal_
                                 = ConfigRef(registeredComponents_[k])

\* C26: on a page whose code neither throws nor calls componentHandler, in
\* every state between two calls, the upgraded-type list of every element
\* names, the empty string apart, exactly the classes of the element's live
\* instances, each once and with one instance each, and no instance is in
\* createdComponents_ twice.
C26_ListsNameLiveInstances ==
    /\ \A e \in Elements :
           /\ NamesIn(UpgradedListOf(e)) = TypesOwnedBy(createdComponents_, e)
           /\ \A T \in TypesOwnedBy(createdComponents_, e) :
                  /\ Occurrences(UpgradedListOf(e), T) = 1
                  /\ Cardinality(InstancesOf(createdComponents_, e, T)) = 1
    /\ \A i, j \in 1..Len(createdComponents_) :
           createdComponents_[i].id = createdComponents_[j].id => i = j

\* downgradeElements(e1) has left e1 with the empty attribute and no
\* instance, while e2 keeps its two instances and the list ',Widget,Tabs'
C26_Witness ==
    /\ WasDowngradeNode(last, "e1")
    /\ dataUpgraded["e1"] = <<>>
    /\ Len(trace) = 1
    /\ OwnedBy(createdComponents_, "e1") = {}
    /\ Len(createdComponents_) = 2
    /\ UpgradedListOf("e2") = <<<<>>, Widget, Tabs>>

\* C27: after a call upgradeElement(e) in which a constructor or a callback
\* threw, the list of e holds a class name exactly if e has a live instance
\* of that class.
C27_AtomicWhenUserCodeThrows ==
    (last.op = "upgradeElement" /\ last.outcome = "user-code")
    => LET e == last.nodes[1]
       IN  \A T \in TypeNames :
               isElementUpgraded_(dataUpgraded[e], T)
               <=> InstancesOf(createdComponents_, e, T) # {}

\* C28: in every state, an instance that an element has as its property of
\* a class name is in createdComponents_.
C28_ExposedIsLive ==
    \A e \in Elements, T \in TypeNames :
        expando[e][T] # 0
        => \E i \in 1..Len(createdComponents_) :
               createdComponents_[i].id = expando[e][T]

\* the instances of created that belong to element e, in their order
ComponentsOf(created, e) == SelectSeq(created, LAMBDA item : item.element_ = e)
\* the values a call was given as nodes
GivenNodes(call) == {call.nodes[i] : i \in 1..Len(call.nodes)}

\* C29: a call of downgradeElements leaves registeredComponents_ as it is,
\* leaves the attribute and the instances of every element that is none of
\* the given nodes as they are, and leaves the instances that remain in
\* createdComponents_ in the order they had.
C29_DowngradeStep ==
    (last'.op = "downgradeElements")
    => /\ registeredComponents_' = registeredComponents_
       /\ \A e \in Elements \ GivenNodes(last') :
              /\ dataUpgraded'[e] = dataUpgraded[e]
              /\ ComponentsOf(createdComponents_', e)
                     = ComponentsOf(createdComponents_, e)
       /\ createdComponents_'
              = SelectSeq(createdComponents_,
                          LAMBDA item : item.element_ \notin GivenNodes(last'))
C29_DowngradeFrame == [][C29_DowngradeStep]_vars

\* downgradeElements(e2) has torn down the two instances of e2; its parent
\* e1 keeps its instance and its list ',Widget'
C29_Witness ==
    /\ WasDowngradeNode(last, "e2")
    /\ last.outcome = Returned
    /\ Len(trace) = 2
    /\ dataUpgraded["e2"] = <<>>
    /\ UpgradedListOf("e1") = <<<<>>, Widget>>
    /\ Len(createdComponents_) = 1
    /\ createdComponents_[1].element_ = "e1"

\* C30 (step): a call of register or registerUpgradedCallback leaves
\* createdComponents_, the attributes and the properties of the elements as
\* they are, creates no instance and dispatches no event.
C30_RegisterStep ==
    (last'.op \in {"register", "registerUpgradedCallback"})
    => /\ createdComponents_' = createdComponents_
       /\ dataUpgraded' = dataUpgraded
       /\ expando' = expando
       /\ nextInstance' = nextInstance
       /\ trace' = <<>>

\* C30 (state): after register has stored a configuration, no live instance
\* refers to it, the instances refer to configurations registered before;
\* and downgradeElements(e) still removes every instance of every element e.
C30_AfterRegister ==
    (last.op = "register" /\ last.outcome = Returned)
    => /\ \A i \in 1..Len(createdComponents_) :
              createdComponents_[i].mdlComponentConfigInternal_.id
                  < findRegisteredClass_(last.type).id
       /\ \A e \in Elements :
              ComponentsOf(downgradeNodesInternal(Machine, <<e>>, FALSE).created, e)
                  = <<>>

WasUpgradeDomBoth(call) ==
    call.op = "upgradeDom" /\ call.type # Undefined /\ call.css # UndefinedCss
\* the elements on which a trace dispatched 'mdl-componentupgrading', in order
Attempted(tr) ==
    LET events == SelectSeq(tr, LAMBDA entry : entry.name = "mdl-componentupgrading")
    IN  [k \in 1..Len(events) |-> events[k].el]
\* the elements on which a listener cancelled that event
CancelledIn(tr) ==
    {tr[k].el : k \in {j \in 1..Len(tr) : tr[j].cancelled}}
\* x is the beginning of y
IsPrefix(x, y) == Len(x) <= Len(y) /\ x = SubSeq(y, 1, Len(x))

\* C31 (state): upgradeDom(T, c) dispatches 'mdl-componentupgrading' on the
\* elements carrying c, in document order, and on no other; when it returns
\* it has done so on all of them, and with T registered every one of them
\* whose event was not cancelled is upgraded to T; with T not registered it
\* throws at the first of them whose event is not cancelled.
C31_AfterUpgradeDom ==
    WasUpgradeDomBoth(last)
    => LET carrying == QuerySelectorAll(last.css)
       IN  /\ IsPrefix(Attempted(trace), carrying)
           /\ \A k \in 1..Len(trace) :
                  \E n \in 1..Len(carrying) : carrying[n] = trace[k].el
           /\ last.outcome = Returned => Attempted(trace) = carrying
           /\ (last.outcome = Returned /\ FindIndex(last.type) # 0)
              => \A n \in 1..Len(carrying) :
                     carrying[n] \notin CancelledIn(trace)
                     => /\ isElementUpgraded_(dataUpgraded[carrying[n]], last.type)
                        /\ InstancesOf(createdComponents_, carrying[n],
                                       last.type) # {}
           /\ FindIndex(last.type) = 0
              => IF \A n \in 1..Len(carrying) : carrying[n] \in CancelledIn(trace)
                 THEN last.outcome = Returned
                 ELSE last.outcome = "no-registered-component"

\* C31 (step): upgradeDom(T, c) leaves the attribute and the instances of
\* the elements that do not carry c as they are, and with T not registered
\* it leaves every attribute and createdComponents_ as they are.
C31_UpgradeDomStep ==
    WasUpgradeDomBoth(last')
    => /\ \A e \in Elements :
              CssToString(last'.css) \notin ClassListOf(e)
              => /\ dataUpgraded'[e] = dataUpgraded[e]
                 /\ ComponentsOf(createdComponents_', e)
                        = ComponentsOf(createdComponents_, e)
       /\ FindIndex(last'.type) = 0
          => /\ dataUpgraded' = dataUpgraded
             /\ createdComponents_' = createdComponents_

\* C31: upgradeDom(T, c) attempts the upgrade to T on the elements carrying
\* c and on no other, whatever CSS class T is registered with, and changes
\* no other element; with T not registered it throws without a change,
\* unless a listener cancels the event of every element carrying c.
C31_UpgradeDomBothGiven == []C31_AfterUpgradeDom /\ [][C31_UpgradeDomStep]_vars

\* C31 as stated: with T not registered and an element carrying c the call
\* throws.
C31_UnregisteredAlwaysThrows ==
    (WasUpgradeDomBoth(last) /\ FindIndex(last.type) = 0
     /\ QuerySelectorAll(last.css) # <<>>)
    => last.outcome = "no-registered-component"

\* upgradeDom(Widget, 't-js') has upgraded e2, which carries t-js, to Widget,
\* registered with the CSS class w-js; e1, which carries w-js only, is as
\* it was
C31_Witness ==
    /\ WasUpgradeDomBoth(last)
    /\ last.type = Widget
    /\ last.css = "t-js"
    /\ last.outcome = Returned
    /\ findRegisteredClass_(Widget).cssClass = "w-js"
    /\ UpgradedListOf("e2") = <<<<>>, Widget>>
    /\ InstancesOf(createdComponents_, "e2", Widget) # {}
    /\ dataUpgraded["e1"] = Null
    /\ OwnedBy(createdComponents_, "e1") = {}

\* the configurations of the instances of created that belong to element e,
\* in their order
ConfigsOf(created, e) ==
    [k \in 1..Len(ComponentsOf(created, e)) |->
        ComponentsOf(created, e)[k].mdlComponentConfigInternal_]

\* what C32 says of a traversal that has just returned, where free is the
\* same traversal of the same state with no listener cancelling: the same
\* elements are offered in the same order; after the cancelled event of an
\* element nothing is done with it, and it is as it was before; every other
\* element is as the traversal without cancellation leaves it.
C32_OnlySkipped(free) ==
    free.err = "none"
    => /\ Attempted(trace') = Attempted(free.trace)
       /\ \A k \in 1..Len(trace') :
              trace'[k].cancelled
              => (k < Len(trace') => trace'[k + 1].name = "mdl-componentupgrading")
       /\ \A e \in CancelledIn(trace') :
              /\ dataUpgraded'[e] = dataUpgraded[e]
              /\ expando'[e] = expando[e]
              /\ ComponentsOf(createdComponents_', e)
                     = ComponentsOf(createdComponents_, e)
       /\ \A e \in Elements \ CancelledIn(trace') :
              /\ dataUpgraded'[e] = free.attr[e]
              /\ ConfigsOf(createdComponents_', e) = ConfigsOf(free.created, e)

\* C32 (upgradeElements)
C32_UpgradeElementsStep ==
    (last'.op = "upgradeElements" /\ last'.outcome = Returned)
    => C32_OnlySkipped(upgradeElementsInternal(Machine, last'.nodes, 1, {}, 0))

\* C32 (upgradeDom)
C32_UpgradeDomStep ==
    (last'.op = "upgradeDom" /\ last'.outcome = Returned)
    => C32_OnlySkipped(upgradeDomInternal(Machine, last'.type, last'.css, {}, 0))

\* C32: when a listener cancels the 'mdl-componentupgrading' event of an
\* element during upgradeElements or upgradeDom, that element is skipped and
\* nothing else changes: its children and the remaining elements are offered
\* and upgraded as they are without the cancellation.
C32_CancellationPerElement ==
    [][C32_UpgradeElementsStep /\ C32_UpgradeDomStep]_vars

\* upgradeElements(e1) with the event of e1 cancelled: e1 is as it was, and
\* its child e2 has been offered next and upgraded
C32_Witness ==
    /\ last.op = "upgradeElements" /\ last.nodes = <<"e1">>
    /\ last.outcome = Returned
    /\ trace[1].el = "e1" /\ trace[1].cancelled
    /\ trace[2].name = "mdl-componentupgrading" /\ trace[2].el = "e2"
    /\ ~trace[2].cancelled
    /\ dataUpgraded["e1"] = Null
    /\ OwnedBy(createdComponents_, "e1") = {}
    /\ UpgradedListOf("e2") = <<<<>>, Widget, Tabs>>


\* ---------------------------------------------------------------------- C33
\* C33: upgradeDom() without arguments, upgradeAllRegistered() and
\* upgradeElements(x) end, whatever was registered (a configuration
\* without class name and CSS class included), when the constructors,
\* callbacks and listeners end and do not call the registry: none of these
\* calls is ended by the exhaustion of the call stack
C33_BulkUpgradesTerminate ==
    last.op \in {"upgradeDom", "upgradeAllRegistered", "upgradeElements"}
        => last.outcome # StackExhausted


\* ---------------------------------------------------------------------- C34
\* the call made from inside the handler is in the trace
C34_Reentered(tr) == \E k \in 1..Len(tr) : tr[k].kind = "begin"

\* C34: a call of downgradeElements(node) that the 'mdl-componentdowngraded'
\* listener re-enters for the same node, the node owning two or more live
\* instances, removes instances of that node only: every instance of another
\* element is still in createdComponents_ after the call, and the attribute
\* of every other element is as it was.
C34_ReenteredStep ==
    (/\ last'.op = "downgradeElements"
     /\ calls' = calls + 1
     /\ C34_Reentered(trace')
     /\ \E node \in GivenNodes(last') :
            Len(ComponentsOf(createdComponents_, node)) >= 2)
    => /\ \A i \in 1..Len(createdComponents_) :
              createdComponents_[i].element_ \notin GivenNodes(last')
              => \E j \in 1..Len(createdComponents_') :
                     createdComponents_'[j] = createdComponents_[i]
       /\ \A e \in Elements \ GivenNodes(last') :
              dataUpgraded'[e] = dataUpgraded[e]
C34_ReenteredDowngradeOwnOnly == [][C34_ReenteredStep]_vars

====
